---------------------------- MODULE Spec2Model ----------------------------
(***************************************************************************)
(* Model of the build-react edge function of react-static-magic: the ZIP   *)
(* reader (parseZip), the import resolver and bundler (resolveImport,      *)
(* bundleFiles) and the request handler that drives one build job.         *)
(*                                                                         *)
(* Strings are sequences of one-character strings, byte buffers are        *)
(* sequences of numbers 0..255; offsets are 0-based as in the source.      *)
(***************************************************************************)
EXTENDS Integers, Sequences, FiniteSets, TLC

(***************************************************************************)
(* Bounds of the model                                                     *)
(***************************************************************************)
MaxEntries == 2

MaxImports == 2

MaxInvocations == 2

(***************************************************************************)
(* String helpers (String.prototype.startsWith / endsWith / replace)       *)
(***************************************************************************)
Min(a, b) == IF a < b THEN a ELSE b

StartsWith(s, p) == Len(s) >= Len(p) /\ SubSeq(s, 1, Len(p)) = p

EndsWith(s, p) == Len(s) >= Len(p) /\ SubSeq(s, Len(s) - Len(p) + 1, Len(s)) = p

\* index of the first "/" of s, 0 when there is none
FirstSlash(s) ==
    IF \E i \in 1..Len(s) : s[i] = "/"
    THEN CHOOSE i \in 1..Len(s) : s[i] = "/" /\ \A j \in 1..(i - 1) : s[j] # "/"
    ELSE 0

\* index of the last "/" of s, 0 when there is none
LastSlash(s) ==
    IF \E i \in 1..Len(s) : s[i] = "/"
    THEN CHOOSE i \in 1..Len(s) : s[i] = "/" /\ \A j \in (i + 1)..Len(s) : s[j] # "/"
    ELSE 0

\* fileName.replace(/^[^/]+\//, "")
StripTopLevel(s) ==
    IF FirstSlash(s) >= 2 THEN SubSeq(s, FirstSlash(s) + 1, Len(s)) ELSE s

(***************************************************************************)
(* Text encoding: the characters used by the model and their UTF-8 codes   *)
(***************************************************************************)
CharCode ==
    (" " :> 32) @@ ("\"" :> 34) @@ ("*" :> 42) @@ (";" :> 59) @@
    ("f" :> 102) @@ ("w" :> 119) @@ ("{" :> 123) @@ ("}" :> 125) @@
    ("." :> 46) @@ ("/" :> 47) @@ ("@" :> 64) @@
    ("A" :> 65) @@ ("B" :> 66) @@ ("C" :> 67) @@ ("D" :> 68) @@
    ("a" :> 97) @@ ("c" :> 99) @@ ("d" :> 100) @@ ("e" :> 101) @@
    ("g" :> 103) @@ ("i" :> 105) @@ ("j" :> 106) @@ ("k" :> 107) @@
    ("m" :> 109) @@ ("n" :> 110) @@ ("o" :> 111) @@ ("p" :> 112) @@
    ("r" :> 114) @@ ("s" :> 115) @@ ("t" :> 116) @@ ("u" :> 117) @@
    ("q" :> 113) @@ ("x" :> 120) @@
    ("-" :> 45) @@ ("4" :> 52) @@ ("<" :> 60) @@ ("=" :> 61) @@ (">" :> 62) @@
    ("N" :> 78) @@ ("l" :> 108) @@ ("v" :> 118)

\* new TextDecoder().decode(bytes); a byte outside the table decodes to U+FFFD
TextDecode(bytes) ==
    [i \in 1..Len(bytes) |->
        IF \E c \in DOMAIN CharCode : CharCode[c] = bytes[i]
        THEN CHOOSE c \in DOMAIN CharCode : CharCode[c] = bytes[i]
        ELSE "\\uFFFD"]

\* strToU8 / TextEncoder for the characters of the table
TextEncode(s) == [i \in 1..Len(s) |-> CharCode[s[i]]]

(***************************************************************************)
(* Byte buffers: DataView reads and Uint8Array.slice                       *)
(***************************************************************************)
\* a DataView read of n bytes at offset off is in range
InRange(data, off, n) == off >= 0 /\ off + n <= Len(data)

GetUint16(data, off) == data[off + 1] + 256 * data[off + 2]

\* values of 2^31 and more are all represented by 2^31 - 1
GetUint32(data, off) ==
    IF data[off + 4] >= 128 THEN 2147483647
    ELSE data[off + 1] + 256 * data[off + 2] + 65536 * data[off + 3]
           + 16777216 * data[off + 4]

\* data.slice(from, to): clamps to the buffer, never throws
Slice(data, from, to) ==
    IF from >= Min(to, Len(data)) THEN << >>
    ELSE SubSeq(data, from + 1, Min(to, Len(data)))

\* little-endian encodings used by archive writers
LE16(n) == << n % 256, (n \div 256) % 256 >>

LE32(n) == << n % 256, (n \div 256) % 256, (n \div 65536) % 256,
              (n \div 16777216) % 256 >>

(***************************************************************************)
(* Map<string, Uint8Array>: insertion-ordered sequence of <<key, value>>   *)
(***************************************************************************)
MapHas(m, k) == \E i \in 1..Len(m) : m[i].key = k

MapGet(m, k) == (CHOOSE i \in 1..Len(m) : m[i].key = k)

MapVal(m, k) == m[MapGet(m, k)].val

MapSet(m, k, v) ==
    IF MapHas(m, k)
    THEN [m EXCEPT ![MapGet(m, k)] = [key |-> k, val |-> v]]
    ELSE Append(m, [key |-> k, val |-> v])

MapKeys(m) == { m[i].key : i \in 1..Len(m) }

(***************************************************************************)
(* fflate decompressSync on a raw DEFLATE stream, restricted to streams of *)
(* one final stored block (BFINAL=1, BTYPE=00, LEN, NLEN, literal bytes).  *)
(* An empty input inflates to an empty buffer; any other input throws.     *)
(***************************************************************************)
DeflateStored(d) == << 1 >> \o LE16(Len(d)) \o LE16(65535 - Len(d)) \o d

InflateOk(c) ==
    \/ c = << >>
    \/ /\ Len(c) >= 5
       /\ c[1] = 1
       /\ GetUint16(c, 1) + GetUint16(c, 3) = 65535
       /\ Len(c) >= 5 + GetUint16(c, 1)

decompressSync(c) ==
    IF c = << >> THEN << >> ELSE Slice(c, 5, 5 + GetUint16(c, 1))

(***************************************************************************)
(* parseZip: scan of the local file headers                                *)
(***************************************************************************)
LocalFileHeaderSignature == 67324752   \* 0x04034b50

ZipResult(threw, files, warns) == [threw |-> threw, files |-> files, warns |-> warns]

\* the test of the signature with the first byte left out
SignatureMismatchPastFirstByte(data, offset) ==
    Slice(data, offset + 1, offset + 4) # Tail(LE32(LocalFileHeaderSignature))

\* if (signature !== 0x04034b50) break;
SignatureMismatch(data, offset) ==
    GetUint32(data, offset) # LocalFileHeaderSignature

\* one iteration of the while loop at offset, with the entries read so far
RECURSIVE ParseZipFrom(_, _, _, _)
ParseZipFrom(data, offset, files, warns) ==
    IF ~(offset < Len(data) - 4) THEN ZipResult(FALSE, files, warns)
    ELSE IF SignatureMismatch(data, offset)
         THEN ZipResult(FALSE, files, warns)
    \* view.getUint16/getUint32 past the end of the buffer raise RangeError
    ELSE IF ~( /\ InRange(data, offset + 8, 2) /\ InRange(data, offset + 18, 4)
               /\ InRange(data, offset + 26, 2) /\ InRange(data, offset + 28, 2) )
         THEN ZipResult(TRUE, files, warns)
    ELSE
      LET compressionMethod == GetUint16(data, offset + 8)
          \* a size that runs past the buffer acts like one that ends at it:
          \* slice clamps and the loop test fails
          compressedSize    == Min(GetUint32(data, offset + 18), Len(data))
          fileNameLength    == GetUint16(data, offset + 26)
          extraFieldLength  == GetUint16(data, offset + 28)
          fileNameStart     == offset + 30
          fileName          == TextDecode(Slice(data, fileNameStart,
                                                fileNameStart + fileNameLength))
          dataStart         == fileNameStart + fileNameLength + extraFieldLength
          compressedData    == Slice(data, dataStart, dataStart + compressedSize)
          isFile            == ~EndsWith(fileName, << "/" >>)
          fileData          == IF compressionMethod = 8
                               THEN decompressSync(compressedData)
                               ELSE IF compressionMethod = 0 THEN compressedData
                               ELSE << >>
          normalizedName    == StripTopLevel(fileName)
          files2            == IF isFile /\ normalizedName # << >>
                               THEN MapSet(files, normalizedName, fileData)
                               ELSE files
          warns2            == IF isFile /\ compressionMethod \notin {0, 8}
                               THEN Append(warns, fileName) ELSE warns
      IN  IF isFile /\ compressionMethod = 8 /\ ~InflateOk(compressedData)
          THEN ZipResult(TRUE, files, warns)
          ELSE ParseZipFrom(data, dataStart + compressedSize, files2, warns2)

parseZip(data) == ParseZipFrom(data, 0, << >>, << >>)

(***************************************************************************)
(* Archives given to the reader.  An archive is written from a list of     *)
(* entries [name, method, content]; with streamed = TRUE the writer sets   *)
(* general-purpose bit 3, leaves the sizes of the local header zero and    *)
(* puts them in a data descriptor after the data (APPNOTE 4.3.9, 4.4.4).   *)
(* CRC fields are written as zero: the reader never looks at them.         *)
(***************************************************************************)
StoredBytes(e) == IF e.method = 8 THEN DeflateStored(e.content) ELSE e.content

LocalRecord(e, streamed) ==
    LE32(LocalFileHeaderSignature) \o LE16(20)
      \o LE16(IF streamed THEN 8 ELSE 0) \o LE16(e.method)
      \o LE16(0) \o LE16(0) \o LE32(0)
      \o LE32(IF streamed THEN 0 ELSE Len(StoredBytes(e)))
      \o LE32(IF streamed THEN 0 ELSE Len(e.content))
      \o LE16(Len(e.name)) \o LE16(0)
      \o TextEncode(e.name) \o StoredBytes(e)
      \o (IF streamed
          THEN LE32(134695760) \o LE32(0) \o LE32(Len(StoredBytes(e)))
                 \o LE32(Len(e.content))
          ELSE << >>)

CentralRecord(e, streamed, at) ==
    LE32(33639248) \o LE16(20) \o LE16(20)
      \o LE16(IF streamed THEN 8 ELSE 0) \o LE16(e.method)
      \o LE16(0) \o LE16(0) \o LE32(0)
      \o LE32(Len(StoredBytes(e))) \o LE32(Len(e.content))
      \o LE16(Len(e.name)) \o LE16(0) \o LE16(0) \o LE16(0) \o LE16(0)
      \o LE32(0) \o LE32(at) \o TextEncode(e.name)

RECURSIVE LocalPart(_, _)
LocalPart(es, streamed) ==
    IF es = << >> THEN << >>
    ELSE LocalRecord(Head(es), streamed) \o LocalPart(Tail(es), streamed)

RECURSIVE CentralPart(_, _, _)
CentralPart(es, streamed, at) ==
    IF es = << >> THEN << >>
    ELSE CentralRecord(Head(es), streamed, at)
           \o CentralPart(Tail(es), streamed,
                          at + Len(LocalRecord(Head(es), streamed)))

WriteZip(es, streamed) ==
    LET loc == LocalPart(es, streamed)
        cen == CentralPart(es, streamed, 0)
    IN  loc \o cen \o LE32(101010256) \o LE16(0) \o LE16(0)
          \o LE16(Len(es)) \o LE16(Len(es)) \o LE32(Len(cen)) \o LE32(Len(loc))
          \o LE16(0)

(***************************************************************************)
(* Manifests and version lookup                                            *)
(***************************************************************************)
\* a manifest that could not be read (parsePackageJsonAt returned null)
\* the workspaces field of a manifest: absent, an array of patterns, an
\* object whose packages field is an array of patterns ("packages"), or an
\* object whose packages field is a string ("text", the string in patterns[1])
Workspaces(form, patterns) == [form |-> form, patterns |-> patterns]

NoWorkspaces == Workspaces("absent", << >>)

NullManifest ==
    [null |-> TRUE, name |-> << >>, dependencies |-> << >>,
     devDependencies |-> << >>, workspaces |-> NoWorkspaces]

Manifest(name, dependencies, devDependencies, workspaces) ==
    [null |-> FALSE, name |-> name, dependencies |-> dependencies,
     devDependencies |-> devDependencies, workspaces |-> workspaces]

Latest == << "l", "a", "t", "e", "s", "t" >>

WorkspaceProtocol == << "w", "o", "r", "k", "s", "p", "a", "c", "e", ":" >>

RangeOperators == { "^", "~", ">", "<", "=" }

\* s.replace(/^[\^~><=]+/, "")
RECURSIVE StripRangeOperators(_)
StripRangeOperators(s) ==
    IF s # << >> /\ Head(s) \in RangeOperators
    THEN StripRangeOperators(Tail(s)) ELSE s

\* s.replace(/^workspace:\*?/, "")
StripWorkspacePrefix(s) ==
    IF StartsWith(s, WorkspaceProtocol)
    THEN LET rest == SubSeq(s, Len(WorkspaceProtocol) + 1, Len(s))
         IN  IF rest # << >> /\ Head(rest) = "*" THEN Tail(rest) ELSE rest
    ELSE s

\* obj[key] is truthy: the key is there and its string is not empty
TruthyString(obj, key) == key \in DOMAIN obj /\ obj[key] # << >>

\* the lookup without the fallback to devDependencies
getDependencyVersionSkipsDev(dep, packageJson, allDeps) ==
    IF TruthyString(allDeps, dep)
    THEN StripWorkspacePrefix(StripRangeOperators(allDeps[dep]))
    ELSE LET version ==
               IF packageJson.null THEN << >>
               ELSE IF TruthyString(packageJson.dependencies, dep)
                    THEN packageJson.dependencies[dep]
                    ELSE << >>
         IN  IF version # << >>
             THEN IF StartsWith(version, WorkspaceProtocol) THEN Latest
                  ELSE StripRangeOperators(version)
             ELSE Latest

getDependencyVersion(dep, packageJson, allDeps) ==
    IF TruthyString(allDeps, dep)
    THEN StripWorkspacePrefix(StripRangeOperators(allDeps[dep]))
    ELSE LET version ==
               IF packageJson.null THEN << >>
               ELSE IF TruthyString(packageJson.dependencies, dep)
                    THEN packageJson.dependencies[dep]
                    ELSE IF TruthyString(packageJson.devDependencies, dep)
                         THEN packageJson.devDependencies[dep]
                         ELSE << >>
         IN  IF version # << >>
             THEN IF StartsWith(version, WorkspaceProtocol) THEN Latest
                  ELSE StripRangeOperators(version)
             ELSE Latest

(***************************************************************************)
(* Source texts.  A source text is [imports, body]: the specifiers of its  *)
(* import ... from statements in order, and the tokens of the rest of the  *)
(* file ("iface" is an interface declaration, "code" runtime code).  The   *)
(* empty string is the text with no imports and no body.                   *)
(***************************************************************************)
Text(imports, body) == [imports |-> imports, body |-> body]

EmptyText == Text(<< >>, << >>)

\* sourceFiles[key] is truthy: the key is there and its text is not ""
Truthy(sourceFiles, key) == key \in DOMAIN sourceFiles /\ sourceFiles[key] # EmptyText

(***************************************************************************)
(* resolveImport                                                           *)
(***************************************************************************)
extensions ==
    << << ".", "t", "s", "x" >>, << ".", "t", "s" >>,
       << ".", "j", "s", "x" >>, << ".", "j", "s" >>,
       << "/", "i", "n", "d", "e", "x", ".", "t", "s", "x" >>,
       << "/", "i", "n", "d", "e", "x", ".", "t", "s" >>,
       << "/", "i", "n", "d", "e", "x", ".", "j", "s", "x" >>,
       << "/", "i", "n", "d", "e", "x", ".", "j", "s" >> >>

EsmSh == << "h", "t", "t", "p", "s", ":", "/", "/", "e", "s", "m", ".", "s", "h", "/" >>

\* s.replace(/\/+/g, "/")
RECURSIVE CollapseSlashes(_)
CollapseSlashes(s) ==
    IF Len(s) < 2 THEN s
    ELSE IF s[1] = "/" /\ s[2] = "/" THEN CollapseSlashes(Tail(s))
    ELSE << s[1] >> \o CollapseSlashes(Tail(s))

\* s.replace(/^\//, "")
StripLeadingSlash(s) == IF s # << >> /\ Head(s) = "/" THEN Tail(s) ELSE s

\* importer.replace(/\/[^/]+$/, "")
Basedir(importer) ==
    IF LastSlash(importer) > 0 /\ LastSlash(importer) < Len(importer)
    THEN SubSeq(importer, 1, LastSlash(importer) - 1) ELSE importer

\* the first candidate base + list[i] whose source text is truthy; << >> if none
FirstCandidate(base, list, sourceFiles) ==
    IF \E i \in 1..Len(list) : Truthy(sourceFiles, base \o list[i])
    THEN base \o list[CHOOSE i \in 1..Len(list) :
                        /\ Truthy(sourceFiles, base \o list[i])
                        /\ \A j \in 1..(i - 1) : ~Truthy(sourceFiles, base \o list[j])]
    ELSE << >>

Resolution(resolved, isExternal) == [resolved |-> resolved, isExternal |-> isExternal]

\* the join of the importer's directory and a relative specifier
RelativeJoin(importPath, importer) ==
    StripLeadingSlash(CollapseSlashes(Basedir(importer) \o << "/" >> \o importPath))

\* the entry files probed for a workspace package
WorkspaceEntryPaths(pkgPath) ==
    << pkgPath \o << "/", "s", "r", "c", "/", "i", "n", "d", "e", "x", ".", "t", "s", "x" >>,
       pkgPath \o << "/", "s", "r", "c", "/", "i", "n", "d", "e", "x", ".", "t", "s" >>,
       pkgPath \o << "/", "i", "n", "d", "e", "x", ".", "t", "s", "x" >>,
       pkgPath \o << "/", "i", "n", "d", "e", "x", ".", "t", "s" >> >>

resolveImport(importPath, importer, sourceFiles, monorepoInfo, packageJson, allDeps) ==
    LET rel      == RelativeJoin(importPath, importer)
        aliased  == IF StartsWith(importPath, << "@", "/" >>)
                    THEN << "s", "r", "c", "/" >> \o SubSeq(importPath, 3, Len(importPath))
                    ELSE importPath
        isAlias  == StartsWith(importPath, << "@", "/" >>)
                      \/ StartsWith(importPath, << "s", "r", "c", "/" >>)
        pkgs     == monorepoInfo.packages
        hasPkg   == \E i \in 1..Len(pkgs) : pkgs[i].name = importPath
        pkg      == pkgs[CHOOSE i \in 1..Len(pkgs) :
                           /\ pkgs[i].name = importPath
                           /\ \A j \in 1..(i - 1) : pkgs[j].name # importPath]
        external == Resolution(EsmSh \o importPath \o << "@" >>
                                 \o getDependencyVersion(importPath, packageJson, allDeps),
                               TRUE)
    IN  IF StartsWith(importPath, << "." >>)
        THEN IF FirstCandidate(rel, extensions, sourceFiles) # << >>
             THEN Resolution(FirstCandidate(rel, extensions, sourceFiles), FALSE)
             ELSE Resolution(rel, FALSE)
        ELSE IF isAlias /\ FirstCandidate(aliased, extensions, sourceFiles) # << >>
        THEN Resolution(FirstCandidate(aliased, extensions, sourceFiles), FALSE)
        ELSE IF /\ StartsWith(importPath, << "@" >>)
                /\ hasPkg
                /\ FirstCandidate(<< >>, WorkspaceEntryPaths(pkg.path), sourceFiles) # << >>
        THEN Resolution(FirstCandidate(<< >>, WorkspaceEntryPaths(pkg.path), sourceFiles), FALSE)
        ELSE external

(***************************************************************************)
(* transformCode                                                           *)
(***************************************************************************)
RECURSIVE DropInterfaces(_)
DropInterfaces(body) ==
    IF body = << >> THEN << >>
    ELSE IF Head(body) = "iface" THEN DropInterfaces(Tail(body))
    ELSE << Head(body) >> \o DropInterfaces(Tail(body))

\* transformCode: interface declarations are removed from .ts and .tsx files
transformCode(body, filename) ==
    IF EndsWith(filename, << ".", "t", "s" >>) \/ EndsWith(filename, << ".", "t", "s", "x" >>)
    THEN DropInterfaces(body) ELSE body

(***************************************************************************)
(* State                                                                   *)
(***************************************************************************)
VARIABLES
    z_pc,          \* archive reader: "idle", "input" or "parsed"
    z_entries,     \* the entries the archive was written from
    z_streamed,    \* the archive was written with data descriptors
    z_intact,      \* the bytes are those the writer produced
    z_data,        \* the byte buffer given to parseZip
    z_result,      \* what parseZip returned
    b_pc,          \* bundler: "idle", "ready", "run", "finish", "done" or "threw"
    b_sources,     \* sourceFiles
    b_entry,       \* entryPoint
    b_mono,        \* monorepoInfo
    b_pkg,         \* packageJson
    b_deps,        \* allDeps
    b_visited,     \* visited
    b_bundled,     \* bundled: the blocks pushed so far
    b_externals,   \* externals, in insertion order
    b_stack,       \* the activations of processFile, innermost last
    b_entered,     \* the file paths whose body processFile has started, in order
    b_res,         \* resolveImport of every import statement of sourceFiles
    b_out,         \* the value bundleFiles returned
    h_upload,      \* the archive stored at the job's input_file_path
    h_jobs,        \* the rows of build_jobs, by id
    h_store,       \* the objects uploaded to the static-builds bucket
    h_logs,        \* buildLogs, the log buffer of the module
    h_started,     \* the number of requests received so far
    h_inv,         \* the invocations of the handler in progress, by slot
    h_said,        \* history: the log lines each invocation has appended itself
    h_overlap,     \* history: the slots whose invocation ran while another did
    v_pc,          \* getDependencyVersion on its own: "idle", "input" or "done"
    v_dep,         \* dep
    v_pkg,         \* packageJson
    v_deps,        \* allDeps
    v_out,         \* the version string returned
    r_pc,          \* resolveImport on its own: "idle", "input" or "done"
    r_importPath,  \* importPath
    r_importer,    \* importer
    r_sources,     \* sourceFiles
    r_mono,        \* monorepoInfo
    r_out,         \* the { resolved, isExternal } returned
    t_pc,          \* generateTailwindCSS on its own: "idle", "input" or "done"
    t_used,        \* usedClasses, in insertion order
    t_out,         \* the rules appended to css, in order
    m_pc,          \* detectMonorepo on its own: "idle", "input" or "done"
    m_files,       \* files
    m_out,         \* the MonorepoInfo returned
    o_pc,          \* the archive stage on its own: "idle", "input" or "done"
    o_files,       \* files
    o_out,         \* zipFiles
    e_flag,        \* esbuild variant: esbuildInitialized
    e_calls,       \* esbuild variant: the calls of esbuild.initialize so far
    e_started,     \* esbuild variant: the requests received so far
    e_inv          \* esbuild variant: where the invocation of each slot is

zvars == << z_pc, z_entries, z_streamed, z_intact, z_data, z_result >>

bvars == << b_pc, b_sources, b_entry, b_mono, b_pkg, b_deps, b_visited,
            b_bundled, b_externals, b_stack, b_entered, b_res, b_out >>

hvars == << h_upload, h_jobs, h_store, h_logs, h_started, h_inv, h_said, h_overlap >>

vvars == << v_pc, v_dep, v_pkg, v_deps, v_out >>

rvars == << r_pc, r_importPath, r_importer, r_sources, r_mono, r_out >>

tvars == << t_pc, t_used, t_out >>

mvars == << m_pc, m_files, m_out >>

ovars == << o_pc, o_files, o_out >>

evars == << e_flag, e_calls, e_started, e_inv >>

qvars == << mvars, ovars, evars >>

pvars == << vvars, rvars, tvars, qvars >>

vars == << zvars, bvars, hvars, pvars >>

\* parseZip and bundleFiles have not returned yet
NoResult == [threw |-> FALSE, files |-> << >>, warns |-> << >>]

NoOutput == [externalImports |-> << >>, blocks |-> << >>]

ZipIdle ==
    /\ z_pc = "idle" /\ z_entries = << >> /\ z_streamed = FALSE
    /\ z_intact = TRUE /\ z_data = << >> /\ z_result = NoResult

NoMonorepo == [isMonorepo |-> FALSE, rootPackageJson |-> NullManifest,
               packages |-> << >>, allDependencies |-> << >>]

VersionIdle ==
    /\ v_pc = "idle" /\ v_dep = << >> /\ v_pkg = NullManifest /\ v_deps = << >>
    /\ v_out = << >>

ResolveIdle ==
    /\ r_pc = "idle" /\ r_importPath = << >> /\ r_importer = << >>
    /\ r_sources = << >> /\ r_mono = NoMonorepo
    /\ r_out = [resolved |-> << >>, isExternal |-> FALSE]

TailwindIdle ==
    t_pc = "idle" /\ t_used = << >> /\ t_out = [cssVars |-> << >>, rules |-> << >>]

MonorepoIdle == m_pc = "idle" /\ m_files = << >> /\ m_out = NoMonorepo

ArchiveIdle == o_pc = "idle" /\ o_files = << >> /\ o_out = << >>

EsbuildSlots == 1..3

EsbuildIdle ==
    /\ e_flag = FALSE /\ e_calls = 0 /\ e_started = 0
    /\ e_inv = [s \in EsbuildSlots |-> "idle"]

MoreIdle == MonorepoIdle /\ ArchiveIdle /\ EsbuildIdle

\* no function is being run on its own
PureIdle == VersionIdle /\ ResolveIdle /\ TailwindIdle /\ MoreIdle

BundlerIdle ==
    /\ b_pc = "idle" /\ b_sources = << >> /\ b_entry = << >>
    /\ b_mono = NoMonorepo /\ b_pkg = NullManifest /\ b_deps = << >>
    /\ b_visited = {} /\ b_bundled = << >> /\ b_externals = << >>
    /\ b_stack = << >> /\ b_entered = << >> /\ b_res = << >> /\ b_out = NoOutput

\* the handler can run two invocations at a time, each waiting at an await
Slots == { 1, 2 }

JobRow(status, error_message, output_file_path) ==
    [status |-> status, error_message |-> error_message,
     output_file_path |-> output_file_path]

\* one job has been created (status defaults to 'pending'); "j9" is the id
\* of no row
PendingJobs == ("j1" :> JobRow("pending", "", ""))

NoResponse == [status |-> 0, json |-> FALSE, success |-> FALSE, error |-> "", logs |-> << >>]

\* an invocation: where it is, the jobId of its request body, whether the
\* lookup returned a row, the message of the failure it is about to record,
\* its response, and a record of what it did: the updates it issued, the
\* stages it ran and the storage calls that failed
\* the static-builds bucket with no object
NoObjects == << >>

IdleSlot ==
    [pc |-> "idle", body |-> "none", job |-> FALSE, error |-> "",
     resp |-> NoResponse, wrote |-> << >>, ran |-> {}, failed |-> {},
     bundledJs |-> NoOutput, outputZip |-> << >>]

HandlerIdle ==
    /\ h_upload = "app" /\ h_jobs = PendingJobs /\ h_store = NoObjects
    /\ h_logs = << >> /\ h_started = 0 /\ h_inv = [s \in Slots |-> IdleSlot]
    /\ h_said = [s \in Slots |-> << >>] /\ h_overlap = {}

(***************************************************************************)
(* The archive reader on its own: an archive is written, possibly damaged  *)
(* on the way, and read by parseZip.                                       *)
(***************************************************************************)
TsxExt == << ".", "t", "s", "x" >>

SrcMainTsx == << "s", "r", "c", "/", "m", "a", "i", "n" >> \o TsxExt

SrcAppTsx == << "s", "r", "c", "/", "A", "p", "p" >> \o TsxExt

PackageJsonPath == << "p", "a", "c", "k", "a", "g", "e", ".", "j", "s", "o", "n" >>

Under(top, path) == << top, "/" >> \o path

EntryNames ==
    { Under("p", SrcMainTsx), Under("p", SrcAppTsx), Under("p", PackageJsonPath),
      Under("q", SrcMainTsx), << "p", "/", "s", "r", "c", "/" >> }

Entry(name, method, content) == [name |-> name, method |-> method, content |-> content]

IsDirectoryName(name) == EndsWith(name, << "/" >>)

Entries ==
    { Entry(n, m, c) : n \in { x \in EntryNames : ~IsDirectoryName(x) },
                        m \in {0, 8}, c \in { << >>, << 7 >> } }
      \cup { Entry(n, 0, << >>) : n \in { x \in EntryNames : IsDirectoryName(x) } }

RECURSIVE SeqsUpTo(_, _)
SeqsUpTo(S, n) ==
    IF n = 0 THEN { << >> }
    ELSE SeqsUpTo(S, n - 1)
           \cup { Append(q, x) : q \in { r \in SeqsUpTo(S, n - 1) : Len(r) = n - 1 }, x \in S }

DistinctNames(es) == \A i, j \in 1..Len(es) : es[i].name = es[j].name => i = j

\* the places at which an upload is cut short
CutPoints == { 3, 20, 29, 36 }

InitZip ==
    /\ z_pc = "input"
    /\ z_entries \in { es \in SeqsUpTo(Entries, MaxEntries) : DistinctNames(es) }
    /\ z_streamed \in BOOLEAN
    /\ z_intact = TRUE
    /\ z_data = WriteZip(z_entries, z_streamed)
    /\ z_result = NoResult
    /\ BundlerIdle
    /\ HandlerIdle
    /\ PureIdle

Truncate(k) ==
    /\ z_pc = "input" /\ z_intact /\ k < Len(z_data)
    /\ z_data' = SubSeq(z_data, 1, k)
    /\ z_intact' = FALSE
    /\ UNCHANGED << z_pc, z_entries, z_streamed, z_result, bvars, hvars, pvars >>

Corrupt ==
    /\ z_pc = "input" /\ z_intact
    /\ z_data' = [z_data EXCEPT ![1] = 81]
    /\ z_intact' = FALSE
    /\ UNCHANGED << z_pc, z_entries, z_streamed, z_result, bvars, hvars, pvars >>

Parse ==
    /\ z_pc = "input"
    /\ z_result' = parseZip(z_data)
    /\ z_pc' = "parsed"
    /\ UNCHANGED << z_entries, z_streamed, z_intact, z_data, bvars, hvars, pvars >>

NextZip ==
    \/ \E k \in CutPoints : Truncate(k)
    \/ Corrupt
    \/ Parse

SpecZip == InitZip /\ [][NextZip]_vars

(***************************************************************************)
(* bundleFiles, one step of processFile at a time.  An activation of       *)
(* processFile is [filePath, next, code]: the file, the index of the       *)
(* import statement the replace callback is at, and the rewritten import   *)
(* statements so far.  A call deeper than MaxStack activations raises the  *)
(* engine's RangeError, which leaves bundleFiles.                          *)
(***************************************************************************)
MaxStack == 6

Frame(filePath) == [filePath |-> filePath, next |-> 1, code |-> << >>]

\* processFile without the test of the visited set
ProcessFileIgnoresVisited(filePath, visited, sourceFiles) ==
    ~Truthy(sourceFiles, filePath)

\* if (visited.has(filePath) || !sourceFiles[filePath]) return;
ProcessFileReturnsAtOnce(filePath, visited, sourceFiles) ==
    filePath \in visited \/ ~Truthy(sourceFiles, filePath)

Top == b_stack[Len(b_stack)]

AtImport == b_pc = "run" /\ Top.next <= Len(b_sources[Top.filePath].imports)

CurrentImport == b_sources[Top.filePath].imports[Top.next]

\* resolveImport depends on its arguments only and bundleFiles changes none
\* of sourceFiles, monorepoInfo, packageJson and allDeps: the resolutions
\* of all import statements are worked out when the table is set up
ResolveAll(sourceFiles, monorepoInfo, packageJson, allDeps) ==
    [f \in DOMAIN sourceFiles |->
        [i \in 1..Len(sourceFiles[f].imports) |->
            resolveImport(sourceFiles[f].imports[i], f, sourceFiles,
                          monorepoInfo, packageJson, allDeps)]]

CurrentResolution == b_res[Top.filePath][Top.next]

\* the callback returns its replacement and the scan moves to the next import
Advance(stack, replacement) ==
    [stack EXCEPT ![Len(stack)] =
        [@ EXCEPT !.next = @ + 1, !.code = Append(@, replacement)]]

SetAdd(sq, x) == IF \E i \in 1..Len(sq) : sq[i] = x THEN sq ELSE Append(sq, x)

BundleStart ==
    /\ b_pc = "ready"
    /\ IF ProcessFileReturnsAtOnce(b_entry, b_visited, b_sources)
       THEN /\ b_pc' = "finish"
            /\ UNCHANGED << b_visited, b_stack, b_entered >>
       ELSE /\ b_pc' = "run"
            /\ b_visited' = b_visited \cup { b_entry }
            /\ b_stack' = << Frame(b_entry) >>
            /\ b_entered' = Append(b_entered, b_entry)
    /\ UNCHANGED << b_sources, b_entry, b_mono, b_pkg, b_deps, b_bundled,
                    b_externals, b_res, b_out >>

ImportExternal ==
    /\ AtImport
    /\ CurrentResolution.isExternal
    /\ b_externals' = SetAdd(b_externals, CurrentResolution.resolved)
    /\ b_stack' = Advance(b_stack, [kind |-> "import", path |-> CurrentResolution.resolved])
    /\ UNCHANGED << b_pc, b_sources, b_entry, b_mono, b_pkg, b_deps, b_visited,
                    b_bundled, b_entered, b_res, b_out >>

ImportLocal ==
    /\ AtImport
    /\ ~CurrentResolution.isExternal
    /\ IF ProcessFileReturnsAtOnce(CurrentResolution.resolved, b_visited, b_sources)
       THEN /\ b_stack' = Advance(b_stack, [kind |-> "bundled", path |-> CurrentImport])
            /\ UNCHANGED << b_pc, b_visited, b_entered >>
       ELSE IF Len(b_stack) >= MaxStack
       THEN /\ b_pc' = "threw"
            /\ b_stack' = << >>
            /\ UNCHANGED << b_visited, b_entered >>
       ELSE /\ b_stack' = Append(b_stack, Frame(CurrentResolution.resolved))
            /\ b_visited' = b_visited \cup { CurrentResolution.resolved }
            /\ b_entered' = Append(b_entered, CurrentResolution.resolved)
            /\ UNCHANGED b_pc
    /\ UNCHANGED << b_sources, b_entry, b_mono, b_pkg, b_deps, b_bundled,
                    b_externals, b_res, b_out >>

\* after the last import: transform, push the block, return to the caller,
\* whose callback then returns "// bundled: <importPath>"
EmitBlock ==
    /\ b_pc = "run"
    /\ Top.next > Len(b_sources[Top.filePath].imports)
    /\ b_bundled' = Append(b_bundled,
          [path |-> Top.filePath, imports |-> Top.code,
           body |-> transformCode(b_sources[Top.filePath].body, Top.filePath)])
    /\ LET rest == SubSeq(b_stack, 1, Len(b_stack) - 1)
       IN  IF rest = << >>
           THEN b_stack' = rest /\ b_pc' = "finish"
           ELSE /\ b_stack' = Advance(rest,
                      [kind |-> "bundled",
                       path |-> b_sources[rest[Len(rest)].filePath]
                                  .imports[rest[Len(rest)].next]])
                /\ UNCHANGED b_pc
    /\ UNCHANGED << b_sources, b_entry, b_mono, b_pkg, b_deps, b_visited,
                    b_externals, b_entered, b_res, b_out >>

Alnum ==
    { "a", "b", "c", "d", "e", "f", "g", "h", "i", "j", "k", "l", "m", "n", "o",
      "p", "q", "r", "s", "t", "u", "v", "w", "x", "y", "z",
      "A", "B", "C", "D", "E", "F", "G", "H", "I", "J", "K", "L", "M", "N", "O",
      "P", "Q", "R", "S", "T", "U", "V", "W", "X", "Y", "Z",
      "0", "1", "2", "3", "4", "5", "6", "7", "8", "9" }

\* url.replace('https://esm.sh/', '').replace(/@[^/]+$/, '')
PkgNameOfUrl(url) ==
    LET bare == IF StartsWith(url, EsmSh) THEN SubSeq(url, Len(EsmSh) + 1, Len(url)) ELSE url
        cut(i) == /\ bare[i] = "@" /\ i < Len(bare)
                  /\ \A j \in (i + 1)..Len(bare) : bare[j] # "/"
    IN  IF \E i \in 1..Len(bare) : cut(i)
        THEN SubSeq(bare, 1, (CHOOSE i \in 1..Len(bare) :
                                 cut(i) /\ \A j \in 1..(i - 1) : ~cut(j)) - 1)
        ELSE bare

\* pkgName.replace(/[^a-zA-Z0-9]/g, '_')
Sanitize(name) == [i \in 1..Len(name) |-> IF name[i] \in Alnum THEN name[i] ELSE "_"]

ExternalImportLine(url) == [ident |-> Sanitize(PkgNameOfUrl(url)), url |-> url]

BundleFinish ==
    /\ b_pc = "finish"
    /\ b_out' = [externalImports |->
                    [i \in 1..Len(b_externals) |-> ExternalImportLine(b_externals[i])],
                 blocks |-> b_bundled]
    /\ b_pc' = "done"
    /\ UNCHANGED << b_sources, b_entry, b_mono, b_pkg, b_deps, b_visited,
                    b_bundled, b_externals, b_stack, b_entered, b_res >>

(***************************************************************************)
(* The bundler on its own: projects of four source files under src/ whose  *)
(* import statements are drawn from small menus, in the relative or in the *)
(* alias style.                                                            *)
(***************************************************************************)
SrcFile(name) == << "s", "r", "c", "/" >> \o name \o TsxExt

MainName == << "m", "a", "i", "n" >>

React == << "r", "e", "a", "c", "t" >>

Styles == { << ".", "/" >>, << "@", "/" >> }

Specifier(style, name) == style \o name

ReactManifest ==
    Manifest(<< "a", "p", "p" >>, (React :> << "^", "1", "8", ".", "2", ".", "0" >>),
             << >>, NoWorkspaces)

Project(style, im, ib, ic, d) ==
    (SrcFile(MainName) :> Text([i \in 1..Len(im) |-> Specifier(style, im[i])], << "code" >>))
    @@ (SrcFile(<< "B" >>) :> Text([i \in 1..Len(ib) |-> Specifier(style, ib[i])], << "code" >>))
    @@ (SrcFile(<< "C" >>) :> Text([i \in 1..Len(ic) |-> Specifier(style, ic[i])], << "iface", "code" >>))
    @@ (SrcFile(<< "D" >>) :> d)

LeafTexts ==
    { EmptyText, Text(<< >>, << "code" >>), Text(<< React >>, << "iface", "code" >>) }

StandaloneMono ==
    [isMonorepo |-> FALSE, rootPackageJson |-> ReactManifest,
     packages |-> << >>, allDependencies |-> ReactManifest.dependencies]

\* a project is handed to the bundler
LoadProject ==
    /\ b_pc = "idle"
    /\ b_pc' = "ready"
    /\ \E style \in Styles,
          im \in SeqsUpTo({ << "B" >>, << "C" >> }, MaxImports),
          ib \in SeqsUpTo({ << "D" >>, MainName }, MaxImports),
          ic \in SeqsUpTo({ << "D" >>, << "C" >> }, MaxImports),
          d \in LeafTexts :
            /\ b_sources' = Project(style, im, ib, ic, d)
            /\ b_res' = ResolveAll(Project(style, im, ib, ic, d), StandaloneMono,
                                   ReactManifest, ReactManifest.dependencies)
    /\ b_entry' = SrcFile(MainName)
    /\ b_pkg' = ReactManifest
    /\ b_deps' = ReactManifest.dependencies
    /\ b_mono' = StandaloneMono
    /\ UNCHANGED << b_visited, b_bundled, b_externals, b_stack, b_entered, b_out >>

InitBundle == ZipIdle /\ BundlerIdle /\ HandlerIdle /\ PureIdle

NextBundle ==
    \/ LoadProject /\ UNCHANGED << zvars, hvars, pvars >>
    \/ BundleStart /\ UNCHANGED << zvars, hvars, pvars >>
    \/ ImportExternal /\ UNCHANGED << zvars, hvars, pvars >>
    \/ ImportLocal /\ UNCHANGED << zvars, hvars, pvars >>
    \/ EmitBlock /\ UNCHANGED << zvars, hvars, pvars >>
    \/ BundleFinish /\ UNCHANGED << zvars, hvars, pvars >>

SpecBundle == InitBundle /\ [][NextBundle]_vars

\* bundleFiles is synchronous: once called, its steps are taken one after
\* the other until it returns or throws
BundlerRun ==
    (BundleStart \/ ImportExternal \/ ImportLocal \/ EmitBlock \/ BundleFinish)
        /\ UNCHANGED << zvars, hvars, pvars >>

LiveBundle == SpecBundle /\ WF_vars(BundlerRun)

(***************************************************************************)
(* Manifests in an archive.  The text of a package.json is a one-word name *)
(* of a document; JSONParse is JSON.parse on the documents the model       *)
(* uploads, and any other text is not JSON.                                *)
(***************************************************************************)
PackagesGlob == << "p", "a", "c", "k", "a", "g", "e", "s", "/", "*" >>

\* {"name":"root","workspaces":["packages/*"]}
RootManifest ==
    Manifest(<< "r", "o", "o", "t" >>, << >>, << >>,
             Workspaces("array", << PackagesGlob >>))

\* {"name":"root","workspaces":{"packages":"packages/*"}}
TextWorkspacesManifest ==
    Manifest(<< "r", "o", "o", "t" >>, << >>, << >>,
             Workspaces("text", << PackagesGlob >>))

\* {"name":"ui","dependencies":{"react":"workspace:*"}}
UiManifest ==
    Manifest(<< "u", "i" >>, (React :> WorkspaceProtocol \o << "*" >>), << >>,
             NoWorkspaces)

ScopedUiName == << "@", "o", "r", "g", "/", "u", "i" >>

\* {"name":"@org/ui"}
ScopedUiManifest == Manifest(ScopedUiName, << >>, << >>, NoWorkspaces)

DeepGlob == << "p", "a", "c", "k", "a", "g", "e", "s", "/", "*", "*" >>

\* {"name":"root","workspaces":["packages/**"]}
DeepRootManifest ==
    Manifest(<< "r", "o", "o", "t" >>, << >>, << >>, Workspaces("array", << DeepGlob >>))

\* {}
BareManifest == Manifest(<< >>, << >>, << >>, NoWorkspaces)

ManifestDocs ==
    (<< "g" >> :> DeepRootManifest) @@ (<< "n" >> :> BareManifest)
      @@ (<< "r" >> :> ReactManifest) @@ (<< "w" >> :> RootManifest)
      @@ (<< "t" >> :> TextWorkspacesManifest) @@ (<< "u" >> :> UiManifest)
      @@ (<< "s" >> :> ScopedUiManifest)

\* JSON.parse(text); the SyntaxError of any other text is caught by
\* parsePackageJsonAt, which then returns null
JSONParse(text) ==
    IF text \in DOMAIN ManifestDocs THEN ManifestDocs[text] ELSE NullManifest

parsePackageJsonAt(files, path) ==
    IF ~MapHas(files, path) THEN NullManifest
    ELSE JSONParse(TextDecode(MapVal(files, path)))

(***************************************************************************)
(* detectMonorepo.  The archives of the model hold no pnpm-workspace.yaml. *)
(***************************************************************************)
\* position of the first occurrence of sub in s, 0 when there is none
IndexOfSub(s, sub) ==
    LET at(i) == SubSeq(s, i, i + Len(sub) - 1) = sub
        places == { i \in 1..(Len(s) - Len(sub) + 1) : at(i) }
    IN  IF places = {} THEN 0
        ELSE CHOOSE i \in places : \A j \in places : i <= j

Includes(s, sub) == IndexOfSub(s, sub) > 0

\* s.replace(sub, ""): the first occurrence only
RemoveFirst(s, sub) ==
    IF ~Includes(s, sub) THEN s
    ELSE SubSeq(s, 1, IndexOfSub(s, sub) - 1)
           \o SubSeq(s, IndexOfSub(s, sub) + Len(sub), Len(s))

\* { ...a, ...b }
Spread(a, b) ==
    [k \in DOMAIN a \cup DOMAIN b |-> IF k \in DOMAIN b THEN b[k] ELSE a[k]]

\* new RegExp(`^${pattern.replace(/\*/g, "[^/]+").replace(/\*\*/g, ".*")}$`)
\*     .test(dirPath)
\* for patterns of letters, "/", "." and "*": the first replace leaves no
\* "*" for the second one, "." stands for any character
RECURSIVE GlobMatches(_, _)
GlobMatches(pattern, dirPath) ==
    IF pattern = << >> THEN dirPath = << >>
    ELSE IF Head(pattern) = "*"
    THEN \E n \in 1..Len(dirPath) :
            /\ \A i \in 1..n : dirPath[i] # "/"
            /\ GlobMatches(Tail(pattern), SubSeq(dirPath, n + 1, Len(dirPath)))
    ELSE /\ dirPath # << >>
         /\ Head(pattern) = "." \/ Head(pattern) = Head(dirPath)
         /\ GlobMatches(Tail(pattern), Tail(dirPath))

\* the patterns of the root manifest (the "text" form leaves a string there)
WorkspacePatterns(rootPackageJson) ==
    IF rootPackageJson.workspaces.form \in { "array", "packages" }
    THEN rootPackageJson.workspaces.patterns ELSE << >>

\* workspacePatterns is a non-empty string: workspacePatterns.join is not a
\* function and the template of the log call raises TypeError
detectMonorepoThrows(files) ==
    LET rootPackageJson == parsePackageJsonAt(files, PackageJsonPath)
    IN  /\ ~rootPackageJson.null
        /\ rootPackageJson.workspaces.form = "text"
        /\ rootPackageJson.workspaces.patterns[1] # << >>

PackageEntrySuffixes ==
    << << "/", "s", "r", "c", "/", "m", "a", "i", "n", ".", "t", "s", "x" >>,
       << "/", "s", "r", "c", "/", "m", "a", "i", "n", ".", "j", "s", "x" >>,
       << "/", "s", "r", "c", "/", "i", "n", "d", "e", "x", ".", "t", "s", "x" >>,
       << "/", "s", "r", "c", "/", "i", "n", "d", "e", "x", ".", "j", "s", "x" >> >>

\* the first of the names base + list[i] that files has; << >> (null) if none
FirstPresent(base, list, files) ==
    IF \E i \in 1..Len(list) : MapHas(files, base \o list[i])
    THEN base \o list[CHOOSE i \in 1..Len(list) :
                        /\ MapHas(files, base \o list[i])
                        /\ \A j \in 1..(i - 1) : ~MapHas(files, base \o list[j])]
    ELSE << >>

WorkspacePackage(name, path, packageJson, entryPoint) ==
    [name |-> name, path |-> path, packageJson |-> packageJson,
     entryPoint |-> entryPoint]

MonorepoInfo(isMonorepo, rootPackageJson, packages, allDependencies) ==
    [isMonorepo |-> isMonorepo, rootPackageJson |-> rootPackageJson,
     packages |-> packages, allDependencies |-> allDependencies]

\* the package.json paths below the root, in the order of the Map
PackageJsonPaths(files) ==
    SelectSeq([i \in 1..Len(files) |-> files[i].key],
              LAMBDA p : EndsWith(p, PackageJsonPath) /\ p # PackageJsonPath)

\* the for loop over packageJsonPaths, from the i-th path on
RECURSIVE CollectPackages(_, _, _, _)
CollectPackages(files, patterns, i, result) ==
    IF i > Len(PackageJsonPaths(files)) THEN result
    ELSE
      LET pkgPath == PackageJsonPaths(files)[i]
          dirPath == RemoveFirst(pkgPath, << "/" >> \o PackageJsonPath)
          matches == \E k \in 1..Len(patterns) : GlobMatches(patterns[k], dirPath)
          pkgJson == parsePackageJsonAt(files, pkgPath)
          pkg     == WorkspacePackage(
                        IF pkgJson.name # << >> THEN pkgJson.name ELSE dirPath,
                        dirPath, pkgJson,
                        FirstPresent(dirPath, PackageEntrySuffixes, files))
      IN  IF matches /\ ~pkgJson.null
          THEN CollectPackages(files, patterns, i + 1,
                  MonorepoInfo(TRUE, result.rootPackageJson,
                               Append(result.packages, pkg),
                               Spread(Spread(result.allDependencies,
                                             pkgJson.dependencies),
                                      pkgJson.devDependencies)))
          ELSE CollectPackages(files, patterns, i + 1, result)

\* a.localeCompare(b) for paths of lower-case letters and "/", on which the
\* collation order is the order of the character codes
RECURSIVE LocaleCompare(_, _)
LocaleCompare(a, b) ==
    IF a = << >> /\ b = << >> THEN 0
    ELSE IF a = << >> THEN -1
    ELSE IF b = << >> THEN 1
    ELSE IF CharCode[Head(a)] < CharCode[Head(b)] THEN -1
    ELSE IF CharCode[Head(a)] > CharCode[Head(b)] THEN 1
    ELSE LocaleCompare(Tail(a), Tail(b))

IsApp(p) == Includes(p.path, << "a", "p", "p" >>) \/ p.entryPoint # << >>

\* the comparator given to result.packages.sort
ComparePackages(a, b) ==
    IF IsApp(a) /\ ~IsApp(b) THEN -1
    ELSE IF ~IsApp(a) /\ IsApp(b) THEN 1
    ELSE LocaleCompare(a.path, b.path)

RECURSIVE InsertSorted(_, _)
InsertSorted(sorted, p) ==
    IF sorted = << >> THEN << p >>
    ELSE IF ComparePackages(p, Head(sorted)) < 0 THEN << p >> \o sorted
    ELSE << Head(sorted) >> \o InsertSorted(Tail(sorted), p)

\* Array.prototype.sort is stable
RECURSIVE SortPackages(_)
SortPackages(packages) ==
    IF packages = << >> THEN << >>
    ELSE InsertSorted(SortPackages(SubSeq(packages, 1, Len(packages) - 1)),
                      packages[Len(packages)])

\* the value detectMonorepo returns when it does not throw
detectMonorepo(files) ==
    LET rootPackageJson == parsePackageJsonAt(files, PackageJsonPath)
        rootDeps == Spread(rootPackageJson.dependencies,
                           rootPackageJson.devDependencies)
        patterns == WorkspacePatterns(rootPackageJson)
        found    == CollectPackages(files, patterns, 1,
                        MonorepoInfo(TRUE, rootPackageJson, << >>, rootDeps))
    IN  IF rootPackageJson.null
        THEN MonorepoInfo(FALSE, rootPackageJson, << >>, << >>)
        ELSE IF Len(patterns) = 0
        THEN MonorepoInfo(FALSE, rootPackageJson, << >>, rootDeps)
        ELSE MonorepoInfo(TRUE, rootPackageJson, SortPackages(found.packages),
                          found.allDependencies)

(***************************************************************************)
(* Source files in an archive.  A source file is written as statements     *)
(* separated by ";": import x from "<specifier>", interface x{} and x (a   *)
(* statement of runtime code).  ParseSource reads a decoded text into the  *)
(* [imports, body] form the bundler works on: the matches of importRegex   *)
(* in order and what is left of the text.                                  *)
(***************************************************************************)
ImportWord == << "i", "m", "p", "o", "r", "t", " " >>

FromWord == << " ", "f", "r", "o", "m", " ", "\"" >>

InterfaceWord == << "i", "n", "t", "e", "r", "f", "a", "c", "e", " " >>

ImportStatement(specifier) ==
    ImportWord \o << "x" >> \o FromWord \o specifier \o << "\"" >>

BodyStatement(token) ==
    IF token = "iface" THEN InterfaceWord \o << "x", "{", "}" >> ELSE << "x" >>

RECURSIVE JoinStatements(_)
JoinStatements(sts) ==
    IF sts = << >> THEN << >>
    ELSE IF Len(sts) = 1 THEN sts[1]
    ELSE sts[1] \o << ";" >> \o JoinStatements(Tail(sts))

WriteSource(imports, body) ==
    JoinStatements([i \in 1..Len(imports) |-> ImportStatement(imports[i])]
                     \o [i \in 1..Len(body) |-> BodyStatement(body[i])])

RECURSIVE SplitStatements(_)
SplitStatements(text) ==
    IF ~Includes(text, << ";" >>) THEN << text >>
    ELSE << SubSeq(text, 1, IndexOfSub(text, << ";" >>) - 1) >>
           \o SplitStatements(SubSeq(text, IndexOfSub(text, << ";" >>) + 1, Len(text)))

\* what follows from " in the statement
AfterFrom(st) == SubSeq(st, IndexOfSub(st, FromWord) + Len(FromWord), Len(st))

\* importRegex matches the statement: import, a name, from and a quoted,
\* non-empty specifier
IsImport(st) ==
    /\ StartsWith(st, ImportWord)
    /\ Includes(st, FromWord)
    /\ IndexOfSub(AfterFrom(st), << "\"" >>) > 1

\* the capture group importPath
ImportPathOf(st) == SubSeq(AfterFrom(st), 1, IndexOfSub(AfterFrom(st), << "\"" >>) - 1)

RECURSIVE ImportsOf(_)
ImportsOf(sts) ==
    IF sts = << >> THEN << >>
    ELSE IF IsImport(Head(sts)) THEN << ImportPathOf(Head(sts)) >> \o ImportsOf(Tail(sts))
    ELSE ImportsOf(Tail(sts))

RECURSIVE BodyOf(_)
BodyOf(sts) ==
    IF sts = << >> THEN << >>
    ELSE IF IsImport(Head(sts)) \/ Head(sts) = << >> THEN BodyOf(Tail(sts))
    ELSE IF StartsWith(Head(sts), InterfaceWord) THEN << "iface" >> \o BodyOf(Tail(sts))
    ELSE << "code" >> \o BodyOf(Tail(sts))

\* only the empty string is falsy: a text of separators alone counts as code
ParseSource(text) ==
    IF text = << >> THEN EmptyText
    ELSE IF ImportsOf(SplitStatements(text)) = << >> /\ BodyOf(SplitStatements(text)) = << >>
    THEN Text(<< >>, << "code" >>)
    ELSE Text(ImportsOf(SplitStatements(text)), BodyOf(SplitStatements(text)))

IsSourcePath(path) ==
    \/ EndsWith(path, << ".", "t", "s", "x" >>) \/ EndsWith(path, << ".", "t", "s" >>)
    \/ EndsWith(path, << ".", "j", "s", "x" >>) \/ EndsWith(path, << ".", "j", "s" >>)

\* const sourceFiles: Record<string, string>, filled from the FileSet
CollectSourceFiles(files) ==
    [path \in { k \in MapKeys(files) : IsSourcePath(k) } |->
        ParseSource(TextDecode(MapVal(files, path)))]

(***************************************************************************)
(* Entry point selection of the handler                                    *)
(***************************************************************************)
standardEntryPoints ==
    << << "s", "r", "c", "/", "m", "a", "i", "n", ".", "t", "s", "x" >>,
       << "s", "r", "c", "/", "m", "a", "i", "n", ".", "j", "s", "x" >>,
       << "s", "r", "c", "/", "i", "n", "d", "e", "x", ".", "t", "s", "x" >>,
       << "s", "r", "c", "/", "i", "n", "d", "e", "x", ".", "j", "s", "x" >>,
       << "m", "a", "i", "n", ".", "t", "s", "x" >>,
       << "m", "a", "i", "n", ".", "j", "s", "x" >>,
       << "i", "n", "d", "e", "x", ".", "t", "s", "x" >>,
       << "i", "n", "d", "e", "x", ".", "j", "s", "x" >> >>

\* the entry point of the first workspace package that has one; << >> if none
WorkspaceEntryPoint(monorepoInfo) ==
    LET pkgs == monorepoInfo.packages
        has(i) == pkgs[i].entryPoint # << >>
    IN  IF monorepoInfo.isMonorepo /\ \E i \in 1..Len(pkgs) : has(i)
        THEN pkgs[CHOOSE i \in 1..Len(pkgs) :
                    has(i) /\ \A j \in 1..(i - 1) : ~has(j)].entryPoint
        ELSE << >>

FindEntryPoint(monorepoInfo, files) ==
    IF WorkspaceEntryPoint(monorepoInfo) # << >>
    THEN WorkspaceEntryPoint(monorepoInfo)
    ELSE FirstPresent(<< >>, standardEntryPoints, files)

(***************************************************************************)
(* extractTailwindClasses                                                  *)
(***************************************************************************)
ClassNameWord == << "c", "l", "a", "s", "s", "N", "a", "m", "e", "=" >>

\* the backquote character, U+0060
Backquote == "BACKQUOTE"

Quotes == { "\"", "'", Backquote }

Whitespace == { " ", "\n", "\t" }

LowerCase ==
    { "a", "b", "c", "d", "e", "f", "g", "h", "i", "j", "k", "l", "m", "n", "o",
      "p", "q", "r", "s", "t", "u", "v", "w", "x", "y", "z" }

\* the length of the longest prefix of s without a character of stops
RunOutside(s, stops) ==
    CHOOSE k \in 0..Len(s) :
        /\ \A i \in 1..k : s[i] \notin stops
        /\ k < Len(s) => s[k + 1] \in stops

\* the captures of classRegex in code, in order: className=, a quote,
\* one or more characters that are no quote, a quote
RECURSIVE ClassAttributes(_)
ClassAttributes(code) ==
    IF ~Includes(code, ClassNameWord) THEN << >>
    ELSE LET at    == IndexOfSub(code, ClassNameWord)
             after == SubSeq(code, at + Len(ClassNameWord), Len(code))
             value == IF after = << >> THEN << >> ELSE Tail(after)
             n     == RunOutside(value, Quotes)
         IN  IF after # << >> /\ Head(after) \in Quotes /\ n >= 1 /\ n < Len(value)
             THEN << SubSeq(value, 1, n) >>
                    \o ClassAttributes(SubSeq(value, n + 2, Len(value)))
             ELSE ClassAttributes(SubSeq(code, at + 1, Len(code)))

\* the captures of templateRegex in code, in order: a backquote, any
\* characters that are no backquote, a backquote
RECURSIVE TemplateLiterals(_)
TemplateLiterals(code) ==
    IF ~Includes(code, << Backquote >>) THEN << >>
    ELSE LET value == SubSeq(code, IndexOfSub(code, << Backquote >>) + 1, Len(code))
             n     == RunOutside(value, { Backquote })
         IN  IF n < Len(value)
             THEN << SubSeq(value, 1, n) >>
                    \o TemplateLiterals(SubSeq(value, n + 2, Len(value)))
             ELSE << >>

\* s.split(/\s+/) without the empty strings
RECURSIVE Words(_)
Words(s) ==
    IF s = << >> THEN << >>
    ELSE IF Head(s) \in Whitespace THEN Words(Tail(s))
    ELSE << SubSeq(s, 1, RunOutside(s, Whitespace)) >>
           \o Words(SubSeq(s, RunOutside(s, Whitespace) + 1, Len(s)))

Has(s, c) == \E i \in 1..Len(s) : s[i] = c

\* classes.add(cls) for the words of the captures that pass the test
RECURSIVE AddWords(_, _, _)
AddWords(classes, words, fromTemplate) ==
    IF words = << >> THEN classes
    ELSE LET cls  == Head(words)
             keep == /\ ~Has(cls, "{") /\ ~Has(cls, "$")
                     /\ fromTemplate => Head(cls) \in LowerCase
         IN  AddWords(IF keep THEN SetAdd(classes, cls) ELSE classes,
                      Tail(words), fromTemplate)

RECURSIVE AddCaptures(_, _, _)
AddCaptures(classes, captures, fromTemplate) ==
    IF captures = << >> THEN classes
    ELSE AddCaptures(AddWords(classes, Words(Head(captures)), fromTemplate),
                     Tail(captures), fromTemplate)

\* the values of sourceFiles in insertion order: the decoded script files
RECURSIVE SourceCodes(_)
SourceCodes(files) ==
    IF files = << >> THEN << >>
    ELSE IF IsSourcePath(Head(files).key)
    THEN << TextDecode(Head(files).val) >> \o SourceCodes(Tail(files))
    ELSE SourceCodes(Tail(files))

\* usedClasses as the list of the Set's members in insertion order
RECURSIVE extractTailwindClasses(_)
extractTailwindClasses(codes) ==
    IF codes = << >> THEN << >>
    ELSE LET code    == codes[Len(codes)]
             classes == extractTailwindClasses(SubSeq(codes, 1, Len(codes) - 1))
         IN  AddCaptures(AddCaptures(classes, ClassAttributes(code), FALSE),
                         TemplateLiterals(code), TRUE)

(***************************************************************************)
(* generateTailwindCSS.  A class name and a CSS rule are strings of        *)
(* characters.  Of the utilities table the model keeps the entries for     *)
(* flex, grid, hidden and animate-spin, the margin and padding entries of  *)
(* the spacing keys 4 and px, the colour white and z-10; css is the list   *)
(* of lines appended after tailwindBase and cssVars.                       *)
(***************************************************************************)
StaticUtilities ==
    (<< "f", "l", "e", "x" >> :>
          << ".", "f", "l", "e", "x", " ", "{", " ", "d", "i", "s", "p", "l", "a", "y", ":", " ", "f", "l", "e", "x", ";", " ", "}" >>)
    @@ (<< "g", "r", "i", "d" >> :>
          << ".", "g", "r", "i", "d", " ", "{", " ", "d", "i", "s", "p", "l", "a", "y", ":", " ", "g", "r", "i", "d", ";", " ", "}" >>)
    @@ (<< "h", "i", "d", "d", "e", "n" >> :>
          << ".", "h", "i", "d", "d", "e", "n", " ", "{", " ", "d", "i", "s", "p", "l", "a", "y", ":", " ", "n", "o", "n", "e", ";", " ", "}" >>)
    @@ (<< "a", "n", "i", "m", "a", "t", "e", "-", "s", "p", "i", "n" >> :>
          << ".", "a", "n", "i", "m", "a", "t", "e", "-", "s", "p", "i", "n", " ", "{", " ", "a", "n", "i", "m", "a", "t", "i", "o", "n", ":", " ", "s", "p", "i", "n", " ", "1", "s", " ", "l", "i", "n", "e", "a", "r", " ", "i", "n", "f", "i", "n", "i", "t", "e", ";", " ", "}", " ", "@", "k", "e", "y", "f", "r", "a", "m", "e", "s", " ", "s", "p", "i", "n", " ", "{", " ", "t", "o", " ", "{", " ", "t", "r", "a", "n", "s", "f", "o", "r", "m", ":", " ", "r", "o", "t", "a", "t", "e", "(", "3", "6", "0", "d", "e", "g", ")", ";", " ", "}", " ", "}" >>)

spacingScale ==
    << [key |-> << "4" >>, value |-> << "1", "r", "e", "m" >>],
       [key |-> << "p", "x" >>, value |-> << "1", "p", "x" >>] >>

\* the entries the spacing loop writes for one key of spacingScale
SpacingUtilities(key, value) ==
    (<< "m", "-" >> \o key :> << ".", "m", "-" >> \o key \o << " ", "{", " ", "m", "a", "r", "g", "i", "n", ":", " " >> \o value \o << ";", " ", "}" >>)
    @@ (<< "p", "-" >> \o key :> << ".", "p", "-" >> \o key \o << " ", "{", " ", "p", "a", "d", "d", "i", "n", "g", ":", " " >> \o value \o << ";", " ", "}" >>)
    @@ (<< "p", "x", "-" >> \o key :> << ".", "p", "x", "-" >> \o key \o << " ", "{", " ", "p", "a", "d", "d", "i", "n", "g", "-", "l", "e", "f", "t", ":", " " >> \o value \o << ";", " ", "p", "a", "d", "d", "i", "n", "g", "-", "r", "i", "g", "h", "t", ":", " " >> \o value \o << ";", " ", "}" >>)

\* the entries the colour loop writes for white
ColorUtilities ==
    (<< "b", "g", "-", "w", "h", "i", "t", "e" >> :> << ".", "b", "g", "-", "w", "h", "i", "t", "e", " ", "{", " ", "b", "a", "c", "k", "g", "r", "o", "u", "n", "d", "-", "c", "o", "l", "o", "r", ":", " ", "#", "f", "f", "f", ";", " ", "}" >>)
    @@ (<< "t", "e", "x", "t", "-", "w", "h", "i", "t", "e" >> :> << ".", "t", "e", "x", "t", "-", "w", "h", "i", "t", "e", " ", "{", " ", "c", "o", "l", "o", "r", ":", " ", "#", "f", "f", "f", ";", " ", "}" >>)

\* the entry the z-index loop writes for 10
ZIndexUtilities == (<< "z", "-", "1", "0" >> :> << ".", "z", "-", "1", "0", " ", "{", " ", "z", "-", "i", "n", "d", "e", "x", ":", " ", "1", "0", ";", " ", "}" >>)

\* const utilities: a later assignment to a key replaces an earlier one
utilities ==
    ZIndexUtilities @@ ColorUtilities
      @@ SpacingUtilities(spacingScale[2].key, spacingScale[2].value)
      @@ SpacingUtilities(spacingScale[1].key, spacingScale[1].value)
      @@ StaticUtilities

\* utilities[name] is truthy
HasUtility(name) == name \in DOMAIN utilities /\ utilities[name] # << >>

\* the alternatives of /^(hover|focus|active|disabled|dark|sm|md|lg|xl|2xl):/
VariantPrefixes ==
    << << "h", "o", "v", "e", "r", ":" >>,
       << "f", "o", "c", "u", "s", ":" >>,
       << "a", "c", "t", "i", "v", "e", ":" >>,
       << "d", "i", "s", "a", "b", "l", "e", "d", ":" >>,
       << "d", "a", "r", "k", ":" >>,
       << "s", "m", ":" >>,
       << "m", "d", ":" >>,
       << "l", "g", ":" >>,
       << "x", "l", ":" >>,
       << "2", "x", "l", ":" >> >>

\* className.replace(/^(hover|focus|active|disabled|dark|sm|md|lg|xl|2xl):/, '')
BaseClass(className) ==
    IF \E i \in 1..Len(VariantPrefixes) : StartsWith(className, VariantPrefixes[i])
    THEN LET i == CHOOSE k \in 1..Len(VariantPrefixes) :
                      /\ StartsWith(className, VariantPrefixes[k])
                      /\ \A j \in 1..(k - 1) : ~StartsWith(className, VariantPrefixes[j])
         IN  SubSeq(className, Len(VariantPrefixes[i]) + 1, Len(className))
    ELSE className

\* rule.match(/\{([^}]+)\}/)?.[1] || '': what stands between the first "{"
\* that is followed by a character other than "}" and the next "}"
RECURSIVE RuleBody(_)
RuleBody(rule) ==
    IF ~Includes(rule, << "{" >>) THEN << >>
    ELSE LET rest == SubSeq(rule, IndexOfSub(rule, << "{" >>) + 1, Len(rule))
         IN  IF Includes(rest, << "}" >>) /\ IndexOfSub(rest, << "}" >>) > 1
             THEN SubSeq(rest, 1, IndexOfSub(rest, << "}" >>) - 1)
             ELSE RuleBody(rest)

\* the rule written for a class with the pseudo-class prefix hover: or focus:
PseudoRule(name, baseClass) ==
    << "." >> \o name \o << "\\", ":" >> \o baseClass \o << ":" >> \o name
      \o << " ", "{", " " >> \o RuleBody(utilities[baseClass]) \o << " ", "}" >>

\* the rule written for a class with the breakpoint prefix sm:, md: or lg:
MediaRule(name, width, baseClass) ==
    << "@", "m", "e", "d", "i", "a", " ", "(", "m", "i", "n", "-", "w", "i", "d", "t", "h", ":", " " >> \o width \o << ")", " ", "{", " ", "." >> \o name \o << "\\", ":" >> \o baseClass
      \o << " ", "{", " " >> \o RuleBody(utilities[baseClass]) \o << " ", "}", " ", "}" >>

\* the variant loop that puts a breakpoint class next to its plain rule
ClassRulesAlsoPlain(className) ==
    LET baseClass == BaseClass(className)
    IN  IF HasUtility(baseClass)
        THEN IF StartsWith(className, << "s", "m", ":" >>)
             THEN << MediaRule(<< "s", "m" >>, << "6", "4", "0", "p", "x" >>, baseClass), utilities[baseClass] >>
             ELSE << utilities[baseClass] >>
        ELSE << >>

\* the lines one pass of the loop over usedClasses appends to css
ClassRules(className) ==
    LET baseClass == BaseClass(className)
    IN  IF HasUtility(baseClass)
        THEN IF StartsWith(className, << "h", "o", "v", "e", "r", ":" >>) THEN << PseudoRule(<< "h", "o", "v", "e", "r" >>, baseClass) >>
             ELSE IF StartsWith(className, << "f", "o", "c", "u", "s", ":" >>) THEN << PseudoRule(<< "f", "o", "c", "u", "s" >>, baseClass) >>
             ELSE IF StartsWith(className, << "s", "m", ":" >>)
             THEN << MediaRule(<< "s", "m" >>, << "6", "4", "0", "p", "x" >>, baseClass) >>
             ELSE IF StartsWith(className, << "m", "d", ":" >>)
             THEN << MediaRule(<< "m", "d" >>, << "7", "6", "8", "p", "x" >>, baseClass) >>
             ELSE IF StartsWith(className, << "l", "g", ":" >>)
             THEN << MediaRule(<< "l", "g" >>, << "1", "0", "2", "4", "p", "x" >>, baseClass) >>
             ELSE << utilities[baseClass] >>
        ELSE IF HasUtility(className) THEN << utilities[className] >>
        ELSE << >>

Css(cssVars, rules) == [cssVars |-> cssVars, rules |-> rules]

RECURSIVE generateTailwindCSS(_, _)
generateTailwindCSS(usedClasses, cssVars) ==
    IF usedClasses = << >> THEN Css(cssVars, << >>)
    ELSE LET css == generateTailwindCSS(SubSeq(usedClasses, 1, Len(usedClasses) - 1), cssVars)
         IN  Css(cssVars, css.rules \o ClassRules(usedClasses[Len(usedClasses)]))


(***************************************************************************)
(* The stylesheet and the files of the output archive                      *)
(***************************************************************************)
cssLocations ==
    << << "s", "r", "c", "/", "i", "n", "d", "e", "x", ".", "c", "s", "s" >>,
       << "i", "n", "d", "e", "x", ".", "c", "s", "s" >> >>

CssExt == << ".", "c", "s", "s" >>

PublicDir == << "p", "u", "b", "l", "i", "c", "/" >>

IndexHtmlName == << "i", "n", "d", "e", "x", ".", "h", "t", "m", "l" >>

BundleJsName == << "b", "u", "n", "d", "l", "e", ".", "j", "s" >>

StylesCssName == << "s", "t", "y", "l", "e", "s", ".", "c", "s", "s" >>

\* additionalCss: the stylesheets of the FileSet other than cssLocations, in
\* the order of the FileSet, each under a comment with its path
RECURSIVE AdditionalCss(_)
AdditionalCss(files) ==
    IF files = << >> THEN << >>
    ELSE IF /\ EndsWith(Head(files).key, CssExt)
            /\ \A i \in 1..Len(cssLocations) : Head(files).key # cssLocations[i]
    THEN << [path |-> Head(files).key, text |-> TextDecode(Head(files).val)] >>
           \o AdditionalCss(Tail(files))
    ELSE AdditionalCss(Tail(files))

\* combinedCss = tailwindCss + "\n" + additionalCss.  No archive of the model
\* holds a file at cssLocations: cssVars is empty
CombinedCss(files) ==
    [tailwind   |-> generateTailwindCSS(extractTailwindClasses(SourceCodes(files)), << >>),
     additional |-> AdditionalCss(files)]

generateHtml(jsFileName, cssFileName) ==
    [doc |-> "page", script |-> << ".", "/" >> \o jsFileName,
     stylesheet |-> << ".", "/" >> \o cssFileName]

generateInlineHtml(bundledJs, bundledCss, reactVersion) ==
    [doc |-> "inline", style |-> bundledCss, script |-> bundledJs,
     react |-> reactVersion]

\* the bytes of a generated text
strToU8(text) == [text |-> text]

\* the files under public/ that are no directory, in the order of the FileSet
IsAsset(path) == StartsWith(path, PublicDir) /\ ~EndsWith(path, << "/" >>)

\* zipFiles[path.replace("public/", "")] = content for the assets
RECURSIVE AddAssets(_, _)
AddAssets(zipFiles, files) ==
    IF files = << >> THEN zipFiles
    ELSE IF IsAsset(Head(files).key)
    THEN AddAssets(MapSet(zipFiles,
                          SubSeq(Head(files).key, Len(PublicDir) + 1, Len(Head(files).key)),
                          [bytes |-> Head(files).val]),
                   Tail(files))
    ELSE AddAssets(zipFiles, Tail(files))

AssetCount(files) == Cardinality({ i \in 1..Len(files) : IsAsset(files[i].key) })

\* const zipFiles, with the assets added; zipSync keeps the entries
ZipFiles(files, bundledJs, combinedCss) ==
    AddAssets(<< [key |-> IndexHtmlName,
                  val |-> strToU8(generateHtml(BundleJsName, StylesCssName))],
                 [key |-> BundleJsName, val |-> strToU8(bundledJs)],
                 [key |-> StylesCssName, val |-> strToU8(combinedCss)] >>,
              files)

\* storage.from("static-builds").upload(path, body, { upsert: true })
Upload(store, path, body) ==
    [p \in DOMAIN store \cup { path } |-> IF p = path THEN body ELSE store[p]]

(***************************************************************************)
(* The archives a client uploads                                           *)
(***************************************************************************)
AliasOf(name) == << "@", "/" >> \o name

AppName == << "A", "p", "p" >>

MainSource == TextEncode(WriteSource(<< React, AliasOf(AppName) >>, << "code" >>))

AppSource == TextEncode(WriteSource(<< >>, << "iface", "code" >>))

\* a React application: package.json, src/main.tsx and src/App.tsx
AppEntries ==
    << Entry(Under("p", PackageJsonPath), 0, TextEncode(<< "r" >>)),
       Entry(Under("p", SrcMainTsx), 8, MainSource),
       Entry(Under("p", SrcAppTsx), 0, AppSource) >>

\* <div className="p-4 flex">
DivElement == << "<", "d", "i", "v", " ", "c", "l", "a", "s", "s", "N", "a", "m", "e", "=", "\"", "p", "-", "4", " ", "f", "l", "e", "x", "\"", ">" >>

RelativeMainSource ==
    TextEncode(WriteSource(<< React, << ".", "/" >> \o AppName >>, << "code" >>))

StyledAppSource ==
    TextEncode(JoinStatements(<< ImportStatement(React), DivElement >>))

\* package.json with react ^18.2.0, src/main.tsx that imports react and
\* ./App, and src/App.tsx with an element of the classes p-4 and flex
StyledEntries ==
    << Entry(Under("p", SrcMainTsx), 0, RelativeMainSource),
       Entry(Under("p", SrcAppTsx), 0, StyledAppSource),
       Entry(Under("p", PackageJsonPath), 0, TextEncode(<< "r" >>)) >>

\* the same without src/main.tsx
NoEntryEntries ==
    << Entry(Under("p", PackageJsonPath), 0, TextEncode(<< "r" >>)),
       Entry(Under("p", SrcAppTsx), 0, AppSource) >>

PackagesDir(name) == << "p", "a", "c", "k", "a", "g", "e", "s", "/" >> \o name \o << "/" >>

UiName == << "u", "i" >>

AppDirName == << "a", "p", "p" >>

\* a monorepo: packages/ui without an entry point before packages/app with one
MonorepoEntries ==
    << Entry(Under("p", PackageJsonPath), 0, TextEncode(<< "w" >>)),
       Entry(Under("p", PackagesDir(UiName) \o PackageJsonPath), 0, TextEncode(<< "u" >>)),
       Entry(Under("p", PackagesDir(AppDirName) \o PackageJsonPath), 0, TextEncode(<< "r" >>)),
       Entry(Under("p", PackagesDir(AppDirName) \o SrcMainTsx), 0,
             TextEncode(WriteSource(<< React >>, << "code" >>))) >>

\* a monorepo none of whose packages has an entry point
LibraryEntries ==
    << Entry(Under("p", PackageJsonPath), 0, TextEncode(<< "w" >>)),
       Entry(Under("p", PackagesDir(UiName) \o PackageJsonPath), 0, TextEncode(<< "u" >>)),
       Entry(Under("p", PackagesDir(UiName) \o SrcAppTsx), 0, AppSource) >>

\* a manifest whose workspaces.packages is a string, and no entry point
TextWorkspacesEntries ==
    << Entry(Under("p", PackageJsonPath), 0, TextEncode(<< "t" >>)),
       Entry(Under("p", SrcAppTsx), 0, AppSource) >>

ChainNames ==
    << MainName, << "A" >>, << "B" >>, << "C" >>, << "D" >>, << "a" >>, << "c" >>,
       << "d" >>, << "e" >>, << "g" >> >>

\* src/main.tsx imports @/A, which imports @/B, ...: one file more than the
\* engine's stack holds activations
ChainEntries ==
    [i \in 1..(MaxStack + 1) |->
        Entry(Under("p", SrcFile(ChainNames[i])), 0,
              TextEncode(IF i <= MaxStack
                         THEN WriteSource(<< AliasOf(ChainNames[i + 1]) >>, << "code" >>)
                         ELSE WriteSource(<< >>, << "code" >>)))]

Uploads ==
    { "app", "styled", "noentry", "monorepo", "library", "textws", "chain",
      "corrupt", "cut", "empty" }

UploadBytes(upload) ==
    CASE upload = "app"      -> WriteZip(AppEntries, FALSE)
      [] upload = "styled"   -> WriteZip(StyledEntries, FALSE)
      [] upload = "noentry"  -> WriteZip(NoEntryEntries, FALSE)
      [] upload = "monorepo" -> WriteZip(MonorepoEntries, FALSE)
      [] upload = "library"  -> WriteZip(LibraryEntries, FALSE)
      [] upload = "textws"   -> WriteZip(TextWorkspacesEntries, FALSE)
      [] upload = "chain"    -> WriteZip(ChainEntries, FALSE)
      \* the first byte of the signature is wrong
      [] upload = "corrupt"  -> [WriteZip(AppEntries, FALSE) EXCEPT ![1] = 81]
      \* the upload ends inside the first local file header
      [] upload = "cut"      -> SubSeq(WriteZip(AppEntries, FALSE), 1, 20)
      \* a file of no bytes
      [] upload = "empty"    -> << >>

UploadData == [upload \in Uploads |-> UploadBytes(upload)]

(***************************************************************************)
(* The synchronous stages between the download and the first upload depend *)
(* on the bytes of the archive only: what they compute is worked out once  *)
(* per archive.                                                            *)
(***************************************************************************)
BuildPlan(zipData) ==
    LET parsed       == parseZip(zipData)
        files        == parsed.files
        monorepoInfo == detectMonorepo(files)
        sourceFiles  == CollectSourceFiles(files)
    IN  [parsed       |-> parsed,
         detectThrew  |-> ~parsed.threw /\ detectMonorepoThrows(files),
         monorepoInfo |-> monorepoInfo,
         entryPoint   |-> FindEntryPoint(monorepoInfo, files),
         sourceFiles  |-> sourceFiles,
         combinedCss  |-> CombinedCss(files),
         assetCount   |-> AssetCount(files),
         resolutions  |-> ResolveAll(sourceFiles, monorepoInfo,
                                     monorepoInfo.rootPackageJson,
                                     monorepoInfo.allDependencies)]

BuildPlans == [upload \in Uploads |-> BuildPlan(UploadData[upload])]

(***************************************************************************)
(* The request handler (Deno.serve).  An invocation runs from one await to *)
(* the next in one step; invocations interleave at the awaits, and nothing *)
(* else runs while bundleFiles does.  The updates of build_jobs succeed;   *)
(* the storage calls succeed or return an error.                           *)
(***************************************************************************)
Requests ==
    { [method |-> "OPTIONS", body |-> "none"] }
      \cup { [method |-> "POST", body |-> b] : b \in { "invalid", "none", "j1", "j9" } }

Response(status, success, error, logs) ==
    [status |-> status, json |-> TRUE, success |-> success, error |-> error,
     logs |-> logs]

\* the preflight response: no body
Preflight == [NoResponse EXCEPT !.status = 200]

\* if (jobError || !job) with the error ignored
JobNotFoundIgnoresMissingRow(jobError, job) == jobError

\* if (jobError || !job)
JobNotFound(jobError, job) == jobError \/ ~job

\* the error_message written to the row for the error of the response
ErrorMessage(error) ==
    CASE error = "Failed to parse ZIP file" -> "Failed to parse ZIP file."
      [] error = "No entry point found" -> "No entry point found (src/main.tsx, etc.)"
      [] OTHER -> error

\* supabase.from("build_jobs").update(fields).eq("id", id)
UpdateStatus(jobs, id, status) ==
    IF id \in DOMAIN jobs THEN [jobs EXCEPT ![id].status = status] ELSE jobs

UpdateFailed(jobs, id, error_message) ==
    IF id \in DOMAIN jobs
    THEN [jobs EXCEPT ![id].status = "failed", ![id].error_message = error_message]
    ELSE jobs

UpdateCompleted(jobs, id, output_file_path) ==
    IF id \in DOMAIN jobs
    THEN [jobs EXCEPT ![id].status = "completed", ![id].output_file_path = output_file_path]
    ELSE jobs

Pc(s) == h_inv[s].pc

\* an update the invocation issued
Wrote(status, error_message) == [status |-> status, error_message |-> error_message]

\* the catch of the handler's outer try: a log line and a 500 response; the
\* job row is not written
Caught(s, message) ==
    /\ h_logs' = Append(h_logs, "Unexpected error")
    /\ h_inv' = [h_inv EXCEPT ![s].pc = "done",
                   ![s].resp = Response(500, FALSE, message, Append(h_logs, "Unexpected error"))]

\* a failure branch: the log line, then the awaited update to "failed"
Fails(s, logLine, error, ran, failed) ==
    /\ h_logs' = Append(h_logs, logLine)
    /\ h_inv' = [h_inv EXCEPT ![s].pc = "updFailed", ![s].error = error,
                   ![s].ran = @ \cup ran, ![s].failed = @ \cup failed]

\* the reset left out: the buffer keeps the lines it holds
ResetLogsKeepsLines(buildLogs) == buildLogs

\* buildLogs.length = 0
ResetLogs(buildLogs) == << >>

\* no invocation is running in the slot: none has, or it has responded
Free(s) == Pc(s) \in { "idle", "done" }

Receive(s) ==
    /\ b_pc = "idle" /\ Free(s)
    \* a request is served in the first free slot
    /\ \A t \in Slots : t < s => ~Free(t)
    /\ h_started < MaxInvocations
    /\ h_started' = h_started + 1
    /\ \E req \in Requests :
          IF req.method = "OPTIONS"
          THEN /\ h_inv' = [h_inv EXCEPT ![s] = [IdleSlot EXCEPT !.pc = "done",
                                                                  !.resp = Preflight]]
               /\ UNCHANGED h_logs
          ELSE \* buildLogs.length = 0, then await req.json()
               /\ h_inv' = [h_inv EXCEPT ![s] = [IdleSlot EXCEPT !.pc = "json",
                                                                  !.body = req.body]]
               /\ h_logs' = ResetLogs(h_logs)
    /\ UNCHANGED << h_upload, h_jobs, h_store, zvars, bvars, pvars >>

ReadBody(s) ==
    /\ b_pc = "idle" /\ Pc(s) = "json"
    /\ IF h_inv[s].body = "invalid"
       THEN Caught(s, "Unexpected token")
       ELSE IF h_inv[s].body = "none"
       THEN /\ h_inv' = [h_inv EXCEPT ![s].pc = "done",
                          ![s].resp = Response(400, FALSE, "Job ID is required", h_logs)]
            /\ UNCHANGED h_logs
       ELSE /\ h_logs' = Append(h_logs, "Starting build job")
            /\ h_inv' = [h_inv EXCEPT ![s].pc = "select"]
    /\ UNCHANGED << h_upload, h_jobs, h_store, h_started, zvars, bvars, pvars >>

SelectJob(s) ==
    /\ b_pc = "idle" /\ Pc(s) = "select"
    /\ \E jobError \in BOOLEAN :
          LET job == ~jobError /\ h_inv[s].body \in DOMAIN h_jobs
          IN  IF JobNotFound(jobError, job)
              THEN /\ h_logs' = Append(h_logs, "Build job not found")
                   /\ h_inv' = [h_inv EXCEPT ![s].pc = "done",
                                  ![s].resp = Response(404, FALSE, "Build job not found",
                                                       Append(h_logs, "Build job not found"))]
              ELSE /\ h_inv' = [h_inv EXCEPT ![s].pc = "updProcessing", ![s].job = job]
                   /\ UNCHANGED h_logs
    /\ UNCHANGED << h_upload, h_jobs, h_store, h_started, zvars, bvars, pvars >>

MarkProcessing(s) ==
    /\ b_pc = "idle" /\ Pc(s) = "updProcessing"
    /\ h_jobs' = UpdateStatus(h_jobs, h_inv[s].body, "processing")
    /\ IF ~h_inv[s].job
       THEN \* job.input_file_path of null
            /\ h_logs' = Append(h_logs, "Unexpected error")
            /\ h_inv' = [h_inv EXCEPT ![s].pc = "done",
                           ![s].wrote = Append(@, Wrote("processing", "")),
                           ![s].resp = Response(500, FALSE, "Cannot read properties of null",
                                                Append(h_logs, "Unexpected error"))]
       ELSE /\ h_logs' = Append(h_logs, "Downloading input file")
            /\ h_inv' = [h_inv EXCEPT ![s].pc = "download",
                           ![s].wrote = Append(@, Wrote("processing", ""))]
    /\ UNCHANGED << h_upload, h_store, h_started, zvars, bvars, pvars >>

Download(s) ==
    /\ b_pc = "idle" /\ Pc(s) = "download"
    /\ \E downloadError \in BOOLEAN :
          IF downloadError
          THEN Fails(s, "Failed to download file", "Failed to download uploaded file",
                     {}, { "download" })
          ELSE /\ h_logs' = Append(h_logs, "File downloaded")
               /\ h_inv' = [h_inv EXCEPT ![s].pc = "build"]
    /\ UNCHANGED << h_upload, h_jobs, h_store, h_started, zvars, bvars, pvars >>

\* the log lines from the parse of the archive to the entry-point lookup
AnalysisLogs(plan) ==
    << "Extracted files from ZIP", "Analyzing project structure" >>
      \o (IF plan.monorepoInfo.isMonorepo
          THEN << "Detected monorepo with patterns" >>
                 \o [i \in 1..Len(plan.monorepoInfo.packages) |-> "Found workspace package"]
                 \o << "Monorepo detected" >>
          ELSE << >>)
      \o << "Total dependencies" >>

\* from the arrayBuffer to the call of bundleFiles
Build(s) ==
    /\ b_pc = "idle" /\ Pc(s) = "build"
    /\ \E plan \in { BuildPlans[h_upload] } :
       LET logs == h_logs \o AnalysisLogs(plan)
       IN  IF plan.parsed.threw
           THEN /\ Fails(s, "Failed to parse ZIP", "Failed to parse ZIP file", { "parse" }, {})
                /\ UNCHANGED bvars
           ELSE IF plan.detectThrew
           THEN /\ h_logs' = h_logs \o << "Extracted files from ZIP",
                                          "Analyzing project structure", "Unexpected error" >>
                /\ h_inv' = [h_inv EXCEPT ![s].pc = "done",
                               ![s].ran = @ \cup { "parse", "detect" },
                               ![s].resp = Response(500, FALSE,
                                    "workspacePatterns.join is not a function",
                                    h_logs \o << "Extracted files from ZIP",
                                                 "Analyzing project structure",
                                                 "Unexpected error" >>)]
                /\ UNCHANGED bvars
           ELSE IF plan.entryPoint = << >>
           THEN /\ h_logs' = Append(logs, "No entry point found")
                /\ h_inv' = [h_inv EXCEPT ![s].pc = "updFailed",
                               ![s].error = "No entry point found",
                               ![s].ran = @ \cup { "parse", "detect", "entry" }]
                /\ UNCHANGED bvars
           ELSE /\ h_logs' = logs \o << "Found entry point", "Processing source files",
                                        "Extracting Tailwind classes", "Total CSS",
                                        "Bundling JavaScript" >>
                /\ h_inv' = [h_inv EXCEPT ![s].pc = "bundling",
                               ![s].ran = @ \cup { "parse", "detect", "entry", "css" }]
                /\ b_pc' = "ready"
                /\ b_sources' = plan.sourceFiles
                /\ b_res' = plan.resolutions
                /\ b_entry' = plan.entryPoint
                /\ b_mono' = plan.monorepoInfo
                /\ b_pkg' = plan.monorepoInfo.rootPackageJson
                /\ b_deps' = plan.monorepoInfo.allDependencies
                /\ UNCHANGED << b_visited, b_bundled, b_externals, b_stack,
                                b_entered, b_out >>
    /\ UNCHANGED << h_upload, h_jobs, h_store, h_started, zvars, pvars >>

\* bundleFiles has returned or thrown; up to the upload of build.zip
BundleReturned(s) ==
    /\ Pc(s) = "bundling" /\ b_pc \in { "done", "threw" }
    /\ IF b_pc = "threw"
       THEN Fails(s, "Bundle error", "Build failed: Maximum call stack size exceeded",
                  { "bundle" }, {})
       ELSE \E plan \in { BuildPlans[h_upload] } :
            /\ h_logs' = h_logs \o << "Bundle complete", "Creating ZIP archive" >>
                            \o (IF plan.assetCount > 0 THEN << "Included static assets" >>
                                ELSE << >>)
                            \o << "ZIP created", "Uploading build.zip" >>
            /\ h_inv' = [h_inv EXCEPT ![s].pc = "uploadZip",
                           ![s].ran = @ \cup { "bundle", "zip" },
                           ![s].bundledJs = b_out,
                           ![s].outputZip = ZipFiles(plan.parsed.files, b_out,
                                                     plan.combinedCss)]
    /\ b_pc' = "idle" /\ b_sources' = << >> /\ b_entry' = << >>
    /\ b_mono' = NoMonorepo /\ b_pkg' = NullManifest /\ b_deps' = << >>
    /\ b_visited' = {} /\ b_bundled' = << >> /\ b_externals' = << >>
    /\ b_stack' = << >> /\ b_entered' = << >> /\ b_res' = << >> /\ b_out' = NoOutput
    /\ UNCHANGED << h_upload, h_jobs, h_store, h_started, zvars, pvars >>

\* the upload of build.zip: its error is logged and the handler goes on
UploadZip(s) ==
    /\ b_pc = "idle" /\ Pc(s) = "uploadZip"
    /\ \E zipUploadError \in BOOLEAN :
          IF zipUploadError
          THEN /\ h_logs' = Append(h_logs, "Failed to upload ZIP")
               /\ h_inv' = [h_inv EXCEPT ![s].pc = "uploadHtml",
                              ![s].ran = @ \cup { "uploadZip" },
                              ![s].failed = @ \cup { "uploadZip" }]
               /\ UNCHANGED h_store
          ELSE /\ h_store' = Upload(h_store, << h_inv[s].body, "build.zip" >>,
                                    h_inv[s].outputZip)
               /\ h_inv' = [h_inv EXCEPT ![s].pc = "uploadHtml",
                              ![s].ran = @ \cup { "uploadZip" }]
               /\ UNCHANGED h_logs
    /\ UNCHANGED << h_upload, h_jobs, h_started, zvars, bvars, pvars >>

UploadHtml(s) ==
    /\ b_pc = "idle" /\ Pc(s) = "uploadHtml"
    /\ \E htmlUploadError \in BOOLEAN, plan \in { BuildPlans[h_upload] } :
          IF htmlUploadError
          THEN /\ Fails(s, "Failed to upload preview HTML", "Failed to save build output",
                        { "uploadHtml" }, { "uploadHtml" })
               /\ UNCHANGED h_store
          ELSE /\ h_store' = Upload(h_store, << h_inv[s].body, "index.html" >>,
                                    generateInlineHtml(h_inv[s].bundledJs, plan.combinedCss,
                                        getDependencyVersion(React,
                                            plan.monorepoInfo.rootPackageJson,
                                            plan.monorepoInfo.allDependencies)))
               /\ h_inv' = [h_inv EXCEPT ![s].pc = "updCompleted",
                              ![s].ran = @ \cup { "uploadHtml" }]
               /\ UNCHANGED h_logs
    /\ UNCHANGED << h_upload, h_jobs, h_started, zvars, bvars, pvars >>

MarkFailed(s) ==
    /\ b_pc = "idle" /\ Pc(s) = "updFailed"
    /\ h_jobs' = UpdateFailed(h_jobs, h_inv[s].body, ErrorMessage(h_inv[s].error))
    /\ h_inv' = [h_inv EXCEPT ![s].pc = "done",
                   ![s].wrote = Append(@, Wrote("failed", ErrorMessage(h_inv[s].error))),
                   ![s].resp = Response(500, FALSE, h_inv[s].error, h_logs)]
    /\ UNCHANGED << h_upload, h_store, h_logs, h_started, zvars, bvars, pvars >>

MarkCompleted(s) ==
    /\ b_pc = "idle" /\ Pc(s) = "updCompleted"
    /\ h_jobs' = UpdateCompleted(h_jobs, h_inv[s].body, "build.zip")
    /\ h_logs' = Append(h_logs, "Build completed successfully")
    /\ h_inv' = [h_inv EXCEPT ![s].pc = "done",
                   ![s].wrote = Append(@, Wrote("completed", "")),
                   ![s].resp = Response(200, TRUE, "",
                                        Append(h_logs, "Build completed successfully"))]
    /\ UNCHANGED << h_upload, h_store, h_started, zvars, bvars, pvars >>

Init ==
    /\ ZipIdle /\ BundlerIdle /\ PureIdle
    /\ h_upload \in Uploads
    /\ h_jobs = PendingJobs /\ h_store = NoObjects
    /\ h_logs = << >> /\ h_started = 0 /\ h_inv = [s \in Slots |-> IdleSlot]
    /\ h_said = [s \in Slots |-> << >>] /\ h_overlap = {}

\* history of a step of the invocation in slot s: the lines it pushed
Said(s) ==
    /\ h_said' = [h_said EXCEPT ![s] = @ \o SubSeq(h_logs', Len(h_logs) + 1, Len(h_logs'))]
    /\ UNCHANGED h_overlap

\* history of the start of an invocation in slot s: it has pushed nothing,
\* and it overlaps the invocations that have not responded yet
Started(s) ==
    LET running == { t \in Slots \ { s } : ~Free(t) }
    IN  /\ h_said' = [h_said EXCEPT ![s] = << >>]
        /\ h_overlap' = IF h_inv'[s].pc = "json" /\ running # {}
                        THEN h_overlap \cup { s } \cup running
                        ELSE h_overlap \ { s }

Next ==
    \/ \E s \in Slots : Receive(s) /\ Started(s)
    \/ \E s \in Slots : ReadBody(s) /\ Said(s)
    \/ \E s \in Slots : SelectJob(s) /\ Said(s)
    \/ \E s \in Slots : MarkProcessing(s) /\ Said(s)
    \/ \E s \in Slots : Download(s) /\ Said(s)
    \/ \E s \in Slots : Build(s) /\ Said(s)
    \/ BundleStart /\ UNCHANGED << zvars, hvars, pvars >>
    \/ ImportExternal /\ UNCHANGED << zvars, hvars, pvars >>
    \/ ImportLocal /\ UNCHANGED << zvars, hvars, pvars >>
    \/ EmitBlock /\ UNCHANGED << zvars, hvars, pvars >>
    \/ BundleFinish /\ UNCHANGED << zvars, hvars, pvars >>
    \/ \E s \in Slots : BundleReturned(s) /\ Said(s)
    \/ \E s \in Slots : UploadZip(s) /\ Said(s)
    \/ \E s \in Slots : UploadHtml(s) /\ Said(s)
    \/ \E s \in Slots : MarkFailed(s) /\ Said(s)
    \/ \E s \in Slots : MarkCompleted(s) /\ Said(s)

Spec == Init /\ [][Next]_vars

\* every await settles and synchronous code runs on: an invocation that has
\* been started takes its next step
HandlerRun ==
    \/ \E s \in Slots :
          /\ \/ ReadBody(s) \/ SelectJob(s) \/ MarkProcessing(s) \/ Download(s)
             \/ Build(s) \/ BundleReturned(s) \/ UploadZip(s) \/ UploadHtml(s)
             \/ MarkFailed(s) \/ MarkCompleted(s)
          /\ Said(s)
    \/ BundlerRun

LiveSpec == Spec /\ WF_vars(HandlerRun)

(***************************************************************************)
(* Claims about the request handler                                        *)
(***************************************************************************)
Terminal == { "completed", "failed" }

Statuses == { "pending", "processing" } \cup Terminal

\* the status of the last update the invocation in slot s issued
LastWrote(s) == h_inv[s].wrote[Len(h_inv[s].wrote)]

\* the invocation in slot s has returned a JSON response (all of which have
\* the logs field) after it recorded a terminal status
Settled(s) ==
    /\ Pc(s) = "done"
    /\ h_inv[s].resp.json
    /\ h_inv[s].wrote # << >> /\ LastWrote(s).status \in Terminal

\* C1: every invocation that has moved the job record to 'processing'
\* eventually records a terminal status ('completed' or 'failed') and returns
\* a JSON response carrying the log buffer, whichever stage fails.
C1_EndsInTerminalStatus ==
    \A s \in Slots : (Pc(s) = "download") ~> Settled(s)

StatusStep(old, new) ==
    \/ new = old
    \/ old = "pending" /\ new = "processing"
    \/ old = "processing" /\ new \in Terminal

\* C2: over any sequence of invocations, repeated and overlapping ones
\* included, the status of a job is one of the four values, moves only along
\* pending -> processing -> completed | failed, and never leaves 'completed'
\* or 'failed'.
C2_StatusOnlyMovesForward ==
    /\ [](\A id \in DOMAIN h_jobs : h_jobs[id].status \in Statuses)
    /\ [][\A id \in DOMAIN h_jobs :
             StatusStep(h_jobs[id].status, h_jobs'[id].status)]_vars

\* C3: once a storage call of an invocation has failed (the download, the
\* upload of build.zip or of index.html), the invocation runs no further
\* stage, does not mark the job 'completed' and answers success:false.
C3_FailedStorageCallStopsBuild ==
    \A s \in Slots :
        h_inv[s].failed # {} =>
            /\ Pc(s) \in { "updFailed", "done" }
            /\ \A i \in 1..Len(h_inv[s].wrote) : h_inv[s].wrote[i].status # "completed"
            /\ Pc(s) = "done" => ~h_inv[s].resp.success

\* the invocation in slot s has answered a POST whose body had no jobId or
\* whose lookup gave no row
AnsweredWithoutRow(s) == Pc(s) = "done" /\ h_inv[s].resp.json /\ ~h_inv[s].job

\* C4: when the request has no jobId, or the jobId matches no row, or the
\* lookup errors, the response is success:false, the invocation issues no
\* update, and none of its steps changes a row of build_jobs.
C4_InputErrorsLeaveRowsUntouched ==
    /\ [](\A s \in Slots :
             AnsweredWithoutRow(s) =>
                 ~h_inv[s].resp.success /\ h_inv[s].wrote = << >>)
    /\ [][\A s \in Slots :
             (h_inv'[s] # h_inv[s] /\ ~h_inv'[s].job) => h_jobs' = h_jobs]_vars

\* an invocation has answered 404 for the id of no row after another one
\* completed job j1, whose row still says so
C4_Witness ==
    \E s \in Slots :
        /\ AnsweredWithoutRow(s)
        /\ h_inv[s].body = "j9" /\ h_inv[s].resp.status = 404
        /\ h_jobs["j1"] = JobRow("completed", "", "build.zip")

\* the FileSet has none of the conventional entry points, and no file that
\* could be the entry point of a workspace package
NoEntryPointIn(files) ==
    /\ \A i \in 1..Len(standardEntryPoints) : ~MapHas(files, standardEntryPoints[i])
    /\ \A k \in MapKeys(files), i \in 1..Len(PackageEntrySuffixes) :
          ~EndsWith(k, PackageEntrySuffixes[i])

\* the invocation in slot s has extracted the FileSet of the upload
Extracted(s) == "parse" \in h_inv[s].ran /\ ~BuildPlans[h_upload].parsed.threw

EntryPointMessages ==
    { "No entry point found", "No entry point found (src/main.tsx, etc.)" }

LaterStages == { "css", "bundle", "zip", "uploadZip", "uploadHtml" }

\* C5: when the extracted FileSet has no entry point, the invocation sets
\* the job to 'failed', answers success:false with an error that mentions
\* the entry point, and runs no bundling, CSS generation or upload.
C5_NoEntryPointFailsJob ==
    \A s \in Slots :
        (Pc(s) = "done" /\ Extracted(s) /\ NoEntryPointIn(BuildPlans[h_upload].parsed.files))
            => /\ h_inv[s].wrote # << >> /\ LastWrote(s).status = "failed"
               /\ ~h_inv[s].resp.success
               /\ h_inv[s].resp.error \in EntryPointMessages
               /\ h_inv[s].ran \cap LaterStages = {}

\* the first four bytes are not those of 0x04034B50
LacksSignature(data) == Slice(data, 0, 4) # LE32(LocalFileHeaderSignature)

\* C6: for a byte stream that does not start with the local-file-header
\* signature, parseZip returns an empty FileSet without raising, and the
\* invocation fails the job with the missing-entry-point error, not with
\* 'Failed to parse ZIP file'.
C6_BadSignatureIsMissingEntryPoint ==
    \A s \in Slots :
        (Pc(s) = "done" /\ "parse" \in h_inv[s].ran /\ LacksSignature(UploadData[h_upload]))
            => /\ parseZip(UploadData[h_upload]) = ZipResult(FALSE, << >>, << >>)
               /\ h_inv[s].resp = Response(500, FALSE, "No entry point found",
                                           h_inv[s].resp.logs)
               /\ LastWrote(s) = Wrote("failed", "No entry point found (src/main.tsx, etc.)")

\* the build of the archive with the damaged signature has ended that way,
\* and the row says so
C6_Witness ==
    \E s \in Slots :
        /\ Pc(s) = "done" /\ "parse" \in h_inv[s].ran
        /\ h_upload = "corrupt"
        /\ h_inv[s].resp.error = "No entry point found"
        /\ h_jobs["j1"] = JobRow("failed", "No entry point found (src/main.tsx, etc.)", "")

(***************************************************************************)
(* Claims about the archive reader                                         *)
(***************************************************************************)
FileEntries(es) == { i \in 1..Len(es) : ~IsDirectoryName(es[i].name) }

\* every entry of es (directories included) lies under one top-level directory
ShareTopLevel(es) ==
    \A i, j \in 1..Len(es) :
        /\ FirstSlash(es[i].name) >= 2
        /\ SubSeq(es[i].name, 1, FirstSlash(es[i].name))
             = SubSeq(es[j].name, 1, FirstSlash(es[j].name))

ReadExactly(es, result) ==
    /\ ~result.threw
    /\ Len(result.files) = Cardinality(FileEntries(es))
    /\ MapKeys(result.files) = { StripTopLevel(es[i].name) : i \in FileEntries(es) }

\* C7: for a well-formed ZIP with N stored or deflated file entries under a
\* common top-level directory, parseZip returns exactly N entries, keyed by
\* the paths with that directory removed.
C7_ReaderReturnsEveryEntry ==
    (z_pc = "parsed" /\ z_intact /\ ShareTopLevel(z_entries))
        => ReadExactly(z_entries, z_result)

(***************************************************************************)
(* Claims about the bundler                                                *)
(***************************************************************************)
BlocksOf(path, blocks) == { i \in 1..Len(blocks) : blocks[i].path = path }

\* the text of file has an import statement naming the module in some style
Refers(sources, file, name) ==
    \E i \in 1..Len(sources[file].imports), st \in Styles :
        sources[file].imports[i] = Specifier(st, name)

\* entry main imports B and C, B and C import D, all four are in the table
\* and D has content
Diamond(sources) ==
    /\ { SrcFile(MainName), SrcFile(<< "B" >>), SrcFile(<< "C" >>), SrcFile(<< "D" >>) }
         \subseteq DOMAIN sources
    /\ Refers(sources, SrcFile(MainName), << "B" >>)
    /\ Refers(sources, SrcFile(MainName), << "C" >>)
    /\ Refers(sources, SrcFile(<< "B" >>), << "D" >>)
    /\ Refers(sources, SrcFile(<< "C" >>), << "D" >>)
    /\ sources[SrcFile(<< "D" >>)] # EmptyText

\* C8: for a diamond import graph the output of bundleFiles holds exactly
\* one copy of D's content.
C8_DiamondEmitsOneCopy ==
    (b_pc = "done" /\ Diamond(b_sources))
        => Cardinality(BlocksOf(SrcFile(<< "D" >>), b_out.blocks)) = 1

\* the import statements of the files processFile has entered that resolve
\* to the local module path
ImportsResolvingTo(path) ==
    { fi \in { << f, i >> : f \in b_visited, i \in 1..MaxImports + 1 } :
        /\ fi[2] <= Len(b_sources[fi[1]].imports)
        /\ ~b_res[fi[1]][fi[2]].isExternal
        /\ b_res[fi[1]][fi[2]].resolved = path }

\* C9: whatever the import graph and the entry point, the block of a local
\* module is pushed at most once, and is at most once in the output.
C9_BlockAtMostOnce ==
    \A p \in DOMAIN b_sources :
        /\ Cardinality(BlocksOf(p, b_bundled)) <= 1
        /\ b_pc = "done" => Cardinality(BlocksOf(p, b_out.blocks)) <= 1

C9_Witness ==
    /\ b_pc = "done"
    /\ \E p \in DOMAIN b_sources :
          /\ Cardinality(ImportsResolvingTo(p)) >= 2
          /\ Cardinality(BlocksOf(p, b_out.blocks)) = 1

NoDuplicates(sq) == \A i, j \in 1..Len(sq) : sq[i] = sq[j] => i = j

\* C10: bundleFiles returns for every SourceTable, import cycles and
\* self-imports included, and processFile enters each file path at most once.
C10_BundleTerminates ==
    /\ [](NoDuplicates(b_entered) /\ b_pc # "threw")
    /\ (b_pc = "ready") ~> (b_pc = "done")

\* bundleFiles has returned for a project in which main and B import each
\* other and C imports itself, all three resolved and entered
C10_Witness ==
    /\ b_pc = "done"
    /\ { SrcFile(MainName), SrcFile(<< "B" >>), SrcFile(<< "C" >>) } \subseteq b_visited
    /\ Cardinality(ImportsResolvingTo(SrcFile(MainName))) >= 1
    /\ \E fi \in ImportsResolvingTo(SrcFile(<< "C" >>)) : fi[1] = SrcFile(<< "C" >>)


(***************************************************************************)
(* getDependencyVersion on its own: one package, looked up in manifests    *)
(* and merged dependency tables whose version specifiers are put together  *)
(* from range operators, the workspace: protocol and a version number.     *)
(***************************************************************************)
MaxOperators == 1

Specifiers ==
    { ops1 \o ws \o ops2 \o num :
        ops1 \in SeqsUpTo(RangeOperators, MaxOperators),
        ws \in { << >>, WorkspaceProtocol, WorkspaceProtocol \o << "*" >> },
        ops2 \in SeqsUpTo(RangeOperators, MaxOperators),
        num \in { << >>, << "1" >> } }

OtherSpecifier == << "~", "2" >>

Placements ==
    { "none", "null", "dependencies", "devDependencies", "both", "allDeps",
      "nullAllDeps", "merged" }

\* the manifest in which the specifier of React is placed
PlacedManifest(place, spec) ==
    CASE place \in { "none", "allDeps" } -> Manifest(<< "a" >>, << >>, << >>, NoWorkspaces)
      [] place \in { "null", "nullAllDeps" } -> NullManifest
      [] place = "dependencies" -> Manifest(<< "a" >>, (React :> spec), << >>, NoWorkspaces)
      [] place = "devDependencies" -> Manifest(<< "a" >>, << >>, (React :> spec), NoWorkspaces)
      [] place = "both" ->
            Manifest(<< "a" >>, (React :> spec), (React :> OtherSpecifier), NoWorkspaces)
      [] place = "merged" ->
            Manifest(<< "a" >>, (React :> OtherSpecifier), << >>, NoWorkspaces)

\* the merged dependency table that goes with it
PlacedAllDeps(place, spec) ==
    IF place \in { "allDeps", "nullAllDeps", "merged" } THEN (React :> spec) ELSE << >>

InitVersion ==
    /\ ZipIdle /\ BundlerIdle /\ HandlerIdle /\ ResolveIdle /\ TailwindIdle /\ MoreIdle
    /\ v_pc = "input"
    /\ v_dep \in { React, UiName }
    /\ \E place \in Placements, spec \in Specifiers :
          /\ v_pkg = PlacedManifest(place, spec)
          /\ v_deps = PlacedAllDeps(place, spec)
    /\ v_out = << >>

\* getDependencyVersion(dep, packageJson, allDeps) is called
LookupVersion ==
    /\ v_pc = "input"
    /\ v_out' = getDependencyVersion(v_dep, v_pkg, v_deps)
    /\ v_pc' = "done"
    /\ UNCHANGED << v_dep, v_pkg, v_deps, zvars, bvars, hvars, rvars, tvars, qvars >>

NextVersion == LookupVersion

SpecVersion == InitVersion /\ [][NextVersion]_vars

\* the package is a key of dependencies or of devDependencies
Declared(packageJson, dep) ==
    /\ ~packageJson.null
    /\ dep \in DOMAIN packageJson.dependencies \cup DOMAIN packageJson.devDependencies

\* the specifier the manifest declares for the package
DeclaredSpecifier(packageJson, dep) ==
    IF dep \in DOMAIN packageJson.dependencies
    THEN packageJson.dependencies[dep] ELSE packageJson.devDependencies[dep]

\* the first specifier of the package that is not empty, dependencies before
\* devDependencies; << >> if there is none
FirstSpecifier(packageJson, dep) ==
    IF packageJson.null THEN << >>
    ELSE IF dep \in DOMAIN packageJson.dependencies /\ packageJson.dependencies[dep] # << >>
    THEN packageJson.dependencies[dep]
    ELSE IF dep \in DOMAIN packageJson.devDependencies
    THEN packageJson.devDependencies[dep]
    ELSE << >>

\* the number of range operator characters the string starts with
LeadingOperators(s) ==
    CHOOSE k \in 0..Len(s) :
        /\ \A i \in 1..k : s[i] \in RangeOperators
        /\ k < Len(s) => s[k + 1] \notin RangeOperators

WithoutLeadingOperators(s) == SubSeq(s, LeadingOperators(s) + 1, Len(s))

\* the lookup did not go through the merged dependency table
ThroughManifest == v_dep \notin DOMAIN v_deps \/ v_deps[v_dep] = << >>

LookedUpSpecifier ==
    IF ThroughManifest THEN FirstSpecifier(v_pkg, v_dep) ELSE v_deps[v_dep]

\* C13: whatever the specifier, in the manifest or in the merged dependency
\* table, the version returned does not start with ^, ~, >, < or =.
C13_NoLeadingRangeOperator ==
    v_pc = "done" => (v_out = << >> \/ Head(v_out) \notin RangeOperators)

\* C14: a specifier that uses the workspace: protocol gives "latest", looked
\* up through the manifest or through the merged dependency table.
C14_WorkspaceProtocolIsLatest ==
    (v_pc = "done" /\ StartsWith(LookedUpSpecifier, WorkspaceProtocol)) => v_out = Latest


(***************************************************************************)
(* resolveImport on its own: an import statement of one importer, and a    *)
(* SourceTable that holds the importer and up to MaxSources of the paths   *)
(* the specifier could mean, with and without the probed suffixes.         *)
(***************************************************************************)
MaxSources == 2

Importers ==
    { SrcFile(MainName), << "s", "r", "c", "/", "a", "/", "B", ".", "t", "s", "x" >> }

ImportPaths ==
    { << ".", "/" >> \o AppName, << ".", ".", "/" >> \o AppName,
      << ".", "/" >> \o AppName \o TsxExt, AliasOf(AppName),
      AliasOf(AppName) \o TsxExt, React }

\* the directory of a path, and the directory above it ("" above the root)
DirOf(path) == IF LastSlash(path) > 0 THEN SubSeq(path, 1, LastSlash(path) - 1) ELSE << >>

InDir(dir, name) == IF dir = << >> THEN name ELSE dir \o << "/" >> \o name

\* the file a relative specifier means for the importer: ./X is X in the
\* importer's directory, ../X is X in the directory above
MeantPath(importPath, importer) ==
    IF StartsWith(importPath, << ".", ".", "/" >>)
    THEN InDir(DirOf(DirOf(importer)), SubSeq(importPath, 4, Len(importPath)))
    ELSE InDir(DirOf(importer), SubSeq(importPath, 3, Len(importPath)))

\* the suffixes under which a file is looked for: none, then the extensions
ProbedSuffixes == << << >> >> \o extensions

\* the paths a SourceTable may hold for the specifier: its keys all have a
\* script extension
CandidatePaths(importPath, importer) ==
    LET bases == IF StartsWith(importPath, << "." >>)
                 THEN { RelativeJoin(importPath, importer),
                        MeantPath(importPath, importer) }
                 ELSE IF StartsWith(importPath, << "@", "/" >>)
                 THEN { << "s", "r", "c", "/" >> \o SubSeq(importPath, 3, Len(importPath)) }
                 ELSE { importPath }
        paths == { base \o ProbedSuffixes[i] : base \in bases, i \in 1..Len(ProbedSuffixes) }
    IN  { path \in paths : IsSourcePath(path) }

InitResolve ==
    /\ ZipIdle /\ BundlerIdle /\ HandlerIdle /\ VersionIdle /\ TailwindIdle /\ MoreIdle
    /\ r_pc = "input"
    /\ r_importPath \in ImportPaths
    /\ r_importer \in Importers
    /\ \E held \in { ks \in SUBSET CandidatePaths(r_importPath, r_importer) :
                       Cardinality(ks) <= MaxSources } :
          r_sources = [k \in held \cup { r_importer } |-> Text(<< >>, << "code" >>)]
    /\ r_mono = StandaloneMono
    /\ r_out = Resolution(<< >>, FALSE)

\* processFile calls resolveImport for an import statement of filePath
Resolve ==
    /\ r_pc = "input"
    /\ r_out' = resolveImport(r_importPath, r_importer, r_sources, r_mono,
                              r_mono.rootPackageJson, r_mono.allDependencies)
    /\ r_pc' = "done"
    /\ UNCHANGED << r_importPath, r_importer, r_sources, r_mono, zvars, bvars, hvars,
                    vvars, tvars, qvars >>

NextResolve == Resolve

SpecResolve == InitResolve /\ [][NextResolve]_vars

IsRelative(importPath) ==
    StartsWith(importPath, << ".", "/" >>) \/ StartsWith(importPath, << ".", ".", "/" >>)

\* the first of base, base.tsx, base.ts, ... that the SourceTable holds
FirstProbed(base, sourceFiles) ==
    LET held(i) == base \o ProbedSuffixes[i] \in DOMAIN sourceFiles
    IN  IF \E i \in 1..Len(ProbedSuffixes) : held(i)
        THEN base \o ProbedSuffixes[CHOOSE i \in 1..Len(ProbedSuffixes) :
                                      held(i) /\ \A j \in 1..(i - 1) : ~held(j)]
        ELSE << >>

\* C18: for a relative specifier the candidates are probed in the order "",
\* .tsx, .ts, .jsx, .js, /index.tsx, /index.ts, /index.jsx, /index.js from the
\* joined path, and the first one the SourceTable holds is returned.
C18_LiteralPathProbedFirst ==
    (r_pc = "done" /\ IsRelative(r_importPath)
       /\ FirstProbed(RelativeJoin(r_importPath, r_importer), r_sources) # << >>) =>
        r_out = Resolution(FirstProbed(RelativeJoin(r_importPath, r_importer), r_sources),
                           FALSE)

\* the SourceTable keys of the file the specifier means, under a recognised
\* extension
MeantKeys ==
    { k \in DOMAIN r_sources :
        \E i \in 1..4 : k = MeantPath(r_importPath, r_importer) \o extensions[i] }

\* C19: for ./X (or ../X) and a SourceTable that has X with a recognised
\* extension in the importer's directory (or in the directory above),
\* resolveImport returns that file's key, as a local module.
C19_RelativeImportFindsFile ==
    (r_pc = "done" /\ IsRelative(r_importPath) /\ MeantKeys # {}) =>
        (r_out.resolved \in MeantKeys /\ ~r_out.isExternal)

\* C20: a specifier that starts with @/ is resolved as a local path under
\* src/, to the first extension candidate the SourceTable holds, and never to
\* a CDN URL, also when there is no candidate.
C20_AliasIsAlwaysLocal ==
    (r_pc = "done" /\ StartsWith(r_importPath, << "@", "/" >>)) =>
        /\ ~r_out.isExternal
        /\ StartsWith(r_out.resolved, << "s", "r", "c", "/" >>)
        /\ ~StartsWith(r_out.resolved, EsmSh)


(***************************************************************************)
(* generateTailwindCSS on its own: up to MaxClasses class names, in the    *)
(* order of their insertion into the Set usedClasses.                     *)
(***************************************************************************)
MaxClasses == 2

ClassNames ==
    { << "f", "l", "e", "x" >>,
      << "s", "m", ":", "f", "l", "e", "x" >>,
      << "m", "d", ":", "f", "l", "e", "x" >>,
      << "l", "g", ":", "f", "l", "e", "x" >>,
      << "x", "l", ":", "f", "l", "e", "x" >>,
      << "h", "o", "v", "e", "r", ":", "f", "l", "e", "x" >>,
      << "f", "o", "c", "u", "s", ":", "f", "l", "e", "x" >>,
      << "d", "a", "r", "k", ":", "f", "l", "e", "x" >>,
      << "p", "-", "4" >>,
      << "s", "m", ":", "p", "-", "4" >>,
      << "s", "m", ":", "n", "o", "p", "e" >>,
      << "s", "m", ":", "h", "o", "v", "e", "r", ":", "f", "l", "e", "x" >>,
      << "h", "i", "d", "d", "e", "n" >>,
      << "s", "m", ":", "a", "n", "i", "m", "a", "t", "e", "-", "s", "p", "i", "n" >>,
      << "p", "x", "-", "p", "x" >>,
      << "2", "x", "l", ":", "f", "l", "e", "x" >>,
      << "a", "c", "t", "i", "v", "e", ":", "f", "l", "e", "x" >>,
      << "d", "i", "s", "a", "b", "l", "e", "d", ":", "f", "l", "e", "x" >>,
      << "f", "o", "c", "u", "s", "-", "v", "i", "s", "i", "b", "l", "e", ":", "f", "l", "e", "x" >>,
      << "g", "r", "o", "u", "p", "-", "h", "o", "v", "e", "r", ":", "f", "l", "e", "x" >>,
      << "d", "a", "r", "k", ":", "n", "o", "p", "e" >> }

InitTailwind ==
    /\ ZipIdle /\ BundlerIdle /\ HandlerIdle /\ VersionIdle /\ ResolveIdle /\ MoreIdle
    /\ t_pc = "input"
    /\ t_used \in { cs \in SeqsUpTo(ClassNames, MaxClasses) : NoDuplicates(cs) }
    /\ t_out = Css(<< >>, << >>)

\* generateTailwindCSS(usedClasses, cssVars) is called
GenerateCss ==
    /\ t_pc = "input"
    /\ t_out' = generateTailwindCSS(t_used, << >>)
    /\ t_pc' = "done"
    /\ UNCHANGED << t_used, zvars, bvars, hvars, vvars, rvars, qvars >>

NextTailwind == GenerateCss

SpecTailwind == InitTailwind /\ [][NextTailwind]_vars

SmFlex == << "s", "m", ":", "f", "l", "e", "x" >>

\* the declarations of the flex utility inside the 640px media block
SmFlexRule ==
    << "@", "m", "e", "d", "i", "a", " ", "(", "m", "i", "n", "-", "w", "i", "d", "t", "h", ":", " ", "6", "4", "0", "p", "x", ")", " ", "{", " ", ".", "s", "m", "\\", ":", "f", "l", "e", "x", " ", "{", " ", " ", "d", "i", "s", "p", "l", "a", "y", ":", " ", "f", "l", "e", "x", ";", " ", " ", "}", " ", "}" >>

PlainFlexSelector == << ".", "f", "l", "e", "x", " ", "{" >>

Used(className) == \E i \in 1..Len(t_used) : t_used[i] = className

Lines(P(_)) == { i \in 1..Len(t_out.rules) : P(t_out.rules[i]) }

IsSmFlexRule(line) == line = SmFlexRule

IsPlainFlexRule(line) == StartsWith(line, PlainFlexSelector)

\* C15: for the used class sm:flex the declarations of the flex utility are
\* written once, inside an @media (min-width: 640px) block, and the class
\* adds no unprefixed .flex rule: there are no more unprefixed .flex rules
\* than other used classes.
C15_SmFlexInsideMediaBlock ==
    (t_pc = "done" /\ Used(SmFlex)) =>
        /\ Cardinality(Lines(IsSmFlexRule)) = 1
        /\ Includes(SmFlexRule, RuleBody(utilities[BaseClass(SmFlex)]))
        /\ Cardinality(Lines(IsPlainFlexRule)) <= Len(t_used) - 1

\* sm:flex is the only used class and the media block is the only rule
C15_Witness ==
    /\ t_pc = "done" /\ t_used = << SmFlex >>
    /\ t_out.rules = << SmFlexRule >>

(***************************************************************************)
(* The log buffer.  In SpecSequential a request is received only when no   *)
(* invocation is in progress; in Spec invocations interleave at awaits.    *)
(***************************************************************************)
\* a request arrives when every earlier invocation has responded
ReceiveAlone(s) == (\A t \in Slots : Free(t)) /\ Receive(s) /\ Started(s)

NextSequential ==
    \/ \E s \in Slots : ReceiveAlone(s)
    \/ \E s \in Slots : ReadBody(s) /\ Said(s)
    \/ \E s \in Slots : SelectJob(s) /\ Said(s)
    \/ \E s \in Slots : MarkProcessing(s) /\ Said(s)
    \/ \E s \in Slots : Download(s) /\ Said(s)
    \/ \E s \in Slots : Build(s) /\ Said(s)
    \/ BundleStart /\ UNCHANGED << zvars, hvars, pvars >>
    \/ ImportExternal /\ UNCHANGED << zvars, hvars, pvars >>
    \/ ImportLocal /\ UNCHANGED << zvars, hvars, pvars >>
    \/ EmitBlock /\ UNCHANGED << zvars, hvars, pvars >>
    \/ BundleFinish /\ UNCHANGED << zvars, hvars, pvars >>
    \/ \E s \in Slots : BundleReturned(s) /\ Said(s)
    \/ \E s \in Slots : UploadZip(s) /\ Said(s)
    \/ \E s \in Slots : UploadHtml(s) /\ Said(s)
    \/ \E s \in Slots : MarkFailed(s) /\ Said(s)
    \/ \E s \in Slots : MarkCompleted(s) /\ Said(s)

SpecSequential == Init /\ [][NextSequential]_vars

\* the invocation in slot s has answered with a JSON body
Answered(s) == Pc(s) = "done" /\ h_inv[s].resp.json

\* C16: when invocations run one after another, the logs of a response are
\* exactly the lines its own invocation appended, in the order it appended
\* them.
C16_SequentialLogsAreOwn ==
    \A s \in Slots : Answered(s) => h_inv[s].resp.logs = h_said[s]

\* the second of two invocations has answered with the lines of a whole
\* build, after the first one had logged lines of its own
C16_Witness ==
    /\ h_started = 2
    /\ \E s \in Slots :
          /\ Answered(s) /\ h_inv[s].resp.success
          /\ Len(h_inv[s].wrote) = 2
          /\ h_inv[s].resp.logs = h_said[s]
          /\ h_jobs["j1"].status = "completed"

\* the logs of the response in slot s are not the lines its invocation appended
LogsCorrupted(s) == Answered(s) /\ h_inv[s].resp.logs # h_said[s]

\* C17: overlapping invocations corrupt the shared buffer, and only they do:
\* a response's logs differ from the lines its invocation appended only if
\* another invocation ran during it.
C17_OnlyOverlapCorruptsLogs ==
    \A s \in Slots : LogsCorrupted(s) => s \in h_overlap

\* a response holds a line of the other invocation, and a response lacks
\* lines its own invocation appended
C17_Witness ==
    /\ \E s \in Slots :
          /\ LogsCorrupted(s) /\ s \in h_overlap
          /\ Len(h_inv[s].resp.logs) < Len(h_said[s])
    /\ \E s \in Slots :
          /\ LogsCorrupted(s) /\ s \in h_overlap
          /\ \E i \in 1..Len(h_inv[s].resp.logs) :
                \A j \in 1..Len(h_said[s]) : h_said[s][j] # h_inv[s].resp.logs[i]


(***************************************************************************)
(* The build of an application from end to end                             *)
(***************************************************************************)
\* the invocation in slot s has responded, its job row was found and none
\* of its storage calls returned an error
RanThrough(s) == Pc(s) = "done" /\ h_inv[s].job /\ h_inv[s].failed = {}

\* the archive stored for the job of the invocation in slot s
StoredZip(s) == h_store[<< h_inv[s].body, "build.zip" >>]

\* bundle.js holds one block for path
BundledOnce(bundledJs, path) == Cardinality(BlocksOf(path, bundledJs.blocks)) = 1

ImportsReact(bundledJs) ==
    \E i \in 1..Len(bundledJs.externalImports) :
        PkgNameOfUrl(bundledJs.externalImports[i].url) = React

\* the stylesheet holds a rule for the class
HasRuleFor(combinedCss, className) ==
    \E i \in 1..Len(combinedCss.tailwind.rules) :
        StartsWith(combinedCss.tailwind.rules[i], << "." >> \o className \o << " ", "{" >>)

\* the job is completed and build.zip is stored
Completes(s) ==
    /\ h_inv[s].resp.status = 200 /\ h_inv[s].resp.success
    /\ h_inv[s].wrote[Len(h_inv[s].wrote)] = Wrote("completed", "")
    /\ << h_inv[s].body, "build.zip" >> \in DOMAIN h_store

HoldsOutputFiles(zip) ==
    /\ MapHas(zip, IndexHtmlName) /\ MapHas(zip, BundleJsName)
    /\ MapHas(zip, StylesCssName)

HoldsStyles(zip) ==
    /\ HasRuleFor(MapVal(zip, StylesCssName).text, << "p", "-", "4" >>)
    /\ HasRuleFor(MapVal(zip, StylesCssName).text, << "f", "l", "e", "x" >>)

HoldsEntryAndReact(zip) ==
    /\ BundledOnce(MapVal(zip, BundleJsName).text, SrcMainTsx)
    /\ ImportsReact(MapVal(zip, BundleJsName).text)

\* C11: for the archive with src/main.tsx that imports ./App, src/App.tsx and
\* a package.json with react ^18.2.0, an invocation whose storage calls
\* succeed completes the job, and the stored build.zip holds index.html, a
\* bundle.js with the block of main.tsx and the block of App.tsx once each
\* and an external import of react, and a styles.css with rules for .p-4
\* and .flex.
C11_EndToEndOutput ==
    h_upload = "styled" =>
        \A s \in Slots :
            RanThrough(s) =>
                /\ Completes(s)
                /\ HoldsOutputFiles(StoredZip(s))
                /\ HoldsEntryAndReact(StoredZip(s))
                /\ BundledOnce(MapVal(StoredZip(s), BundleJsName).text, SrcAppTsx)
                /\ HoldsStyles(StoredZip(s))

\* what the build of that archive does give: everything but the block of
\* App.tsx, which is not in bundle.js
C11_AllButImportedFile ==
    h_upload = "styled" =>
        \A s \in Slots :
            RanThrough(s) =>
                /\ Completes(s)
                /\ HoldsOutputFiles(StoredZip(s))
                /\ HoldsEntryAndReact(StoredZip(s))
                /\ BlocksOf(SrcAppTsx, MapVal(StoredZip(s), BundleJsName).text.blocks) = {}
                /\ HoldsStyles(StoredZip(s))

C11_Reached ==
    h_upload = "styled" /\ \E s \in Slots : RanThrough(s)

(***************************************************************************)
(* resolveImport for the name of a workspace package: the project is a     *)
(* workspace root with the package packages/ui, named ui or @org/ui by its *)
(* manifest, and any of the package's entry files.                         *)
(***************************************************************************)
UiDir == << "p", "a", "c", "k", "a", "g", "e", "s", "/", "u", "i" >>

File(path, content) == [key |-> path, val |-> content]

\* the files of the package that an archive may hold
PackageFilePaths ==
    WorkspaceEntryPaths(UiDir) \o << UiDir \o << "/" >> \o SrcMainTsx >>

WorkspaceFileSet(doc, held) ==
    << File(PackageJsonPath, TextEncode(<< "w" >>)),
       File(UiDir \o << "/" >> \o PackageJsonPath, TextEncode(<< doc >>)),
       File(SrcMainTsx, TextEncode(WriteSource(<< >>, << "code" >>))) >>
      \o [i \in 1..Len(SelectSeq(PackageFilePaths, LAMBDA path : path \in held)) |->
            File(SelectSeq(PackageFilePaths, LAMBDA path : path \in held)[i],
                 TextEncode(WriteSource(<< >>, << "code" >>)))]

InitWorkspace ==
    /\ ZipIdle /\ BundlerIdle /\ HandlerIdle /\ VersionIdle /\ TailwindIdle /\ MoreIdle
    /\ r_pc = "input"
    /\ r_importPath \in { UiName, ScopedUiName }
    /\ r_importer = SrcMainTsx
    /\ \E doc \in { "u", "s" },
          held \in SUBSET { PackageFilePaths[i] : i \in 1..Len(PackageFilePaths) } :
          /\ r_sources = CollectSourceFiles(WorkspaceFileSet(doc, held))
          /\ r_mono = detectMonorepo(WorkspaceFileSet(doc, held))
    /\ r_out = Resolution(<< >>, FALSE)

SpecWorkspace == InitWorkspace /\ [][NextResolve]_vars

\* the detected packages whose name is the specifier
NamedPackages ==
    { i \in 1..Len(r_mono.packages) : r_mono.packages[i].name = r_importPath }

\* the conventional entry files of package i that the SourceTable holds
HeldEntryFiles(i) ==
    { path \in DOMAIN r_sources :
        \E k \in 1..4 : path = WorkspaceEntryPaths(r_mono.packages[i].path)[k] }

\* C21: a specifier that is the name of a detected workspace package, scoped
\* or not, with a conventional entry file in the SourceTable, resolves to an
\* entry file of that package as a local module and not to a CDN URL.
C21_PackageNameResolvesToEntry ==
    r_pc = "done" =>
        \A i \in NamedPackages :
            HeldEntryFiles(i) # {} =>
                /\ r_out.resolved \in HeldEntryFiles(i)
                /\ ~r_out.isExternal
                /\ ~StartsWith(r_out.resolved, EsmSh)

\* the same for the scoped names only
C21_ScopedNameResolvesToEntry ==
    (r_pc = "done" /\ StartsWith(r_importPath, << "@" >>)) =>
        \A i \in NamedPackages :
            HeldEntryFiles(i) # {} =>
                /\ r_out.resolved \in HeldEntryFiles(i)
                /\ ~r_out.isExternal

C21_ScopedReached ==
    /\ r_pc = "done" /\ r_importPath = ScopedUiName
    /\ \E i \in NamedPackages : HeldEntryFiles(i) # {}

(***************************************************************************)
(* The order of the bundle                                                 *)
(***************************************************************************)
\* return externalImports + '\n\n' + bundled.join('\n\n'): the import lines
\* of the header and the module blocks, in the order of the text
BundleText(out) ==
    [i \in 1..Len(out.externalImports) |-> [kind |-> "header", path |-> out.externalImports[i].url]]
      \o [i \in 1..Len(out.blocks) |-> [kind |-> "block", path |-> out.blocks[i].path]]

\* file f has an import statement that resolves to the source file g
ImportsLocally(f, g) ==
    /\ f \in DOMAIN b_res /\ g \in DOMAIN b_sources
    /\ \E i \in 1..Len(b_res[f]) : ~b_res[f][i].isExternal /\ b_res[f][i].resolved = g

RECURSIVE ReachesIn(_, _, _)
ReachesIn(f, g, n) ==
    /\ n > 0
    /\ \/ ImportsLocally(f, g)
       \/ \E h \in DOMAIN b_sources : ImportsLocally(f, h) /\ ReachesIn(h, g, n - 1)

\* no source file imports itself, directly or through other files
Acyclic ==
    \A f \in DOMAIN b_sources : ~ReachesIn(f, f, Cardinality(DOMAIN b_sources))

Places(kind, path) ==
    { i \in 1..Len(BundleText(b_out)) :
        BundleText(b_out)[i].kind = kind /\ BundleText(b_out)[i].path = path }

AllPlaces(kind) ==
    { i \in 1..Len(BundleText(b_out)) : BundleText(b_out)[i].kind = kind }

\* C22: in the output of bundleFiles for an acyclic import graph the block
\* of a local module stands before the block of every module that imports
\* it, the block of the entry point is the last one, and the import lines of
\* the header stand before all blocks.
C22_DependenciesBeforeImporters ==
    (b_pc = "done" /\ Acyclic) =>
        /\ \A f, g \in DOMAIN b_sources :
              ImportsLocally(f, g) =>
                  \A i \in Places("block", g), j \in Places("block", f) : i < j
        /\ AllPlaces("block") # {} =>
              Places("block", b_entry) = { Len(BundleText(b_out)) }
        /\ \A i \in AllPlaces("header"), j \in AllPlaces("block") : i < j

\* a diamond with an external import: four blocks under a header
C22_Witness ==
    /\ b_pc = "done" /\ Acyclic /\ Diamond(b_sources)
    /\ Cardinality(AllPlaces("block")) = 4 /\ AllPlaces("header") # {}
    /\ Places("block", SrcFile(<< "D" >>)) = { Len(b_out.externalImports) + 1 }

(***************************************************************************)
(* detectMonorepo on its own: a workspace root whose pattern is packages/* *)
(* or packages/**, and directories with a manifest, with or without an     *)
(* entry point, in the order of the archive or in the reverse order.       *)
(***************************************************************************)
PackageDirs ==
    << << "p", "a", "c", "k", "a", "g", "e", "s", "/", "a", "p", "p" >>,
       << "p", "a", "c", "k", "a", "g", "e", "s", "/", "k", "i", "t" >>,
       << "p", "a", "c", "k", "a", "g", "e", "s", "/", "u", "i" >>,
       << "p", "a", "c", "k", "a", "g", "e", "s", "/", "u", "i", "/", "c", "o", "r", "e" >> >>

PackageKinds == { "absent", "library", "application" }

\* the files of a package directory: its manifest and, for an application,
\* src/main.tsx
PackageFiles(dir, kind) ==
    IF kind = "absent" THEN << >>
    ELSE << File(dir \o << "/" >> \o PackageJsonPath, TextEncode(<< "n" >>)) >>
           \o (IF kind = "application"
               THEN << File(dir \o << "/" >> \o SrcMainTsx,
                            TextEncode(WriteSource(<< >>, << "code" >>))) >>
               ELSE << >>)

RECURSIVE DirectoryFiles(_, _)
DirectoryFiles(kinds, i) ==
    IF i > Len(PackageDirs) THEN << >>
    ELSE PackageFiles(PackageDirs[i], kinds[i]) \o DirectoryFiles(kinds, i + 1)

Reverse(sq) == [i \in 1..Len(sq) |-> sq[Len(sq) + 1 - i]]

InitMonorepo ==
    /\ ZipIdle /\ BundlerIdle /\ HandlerIdle /\ VersionIdle /\ ResolveIdle /\ TailwindIdle
    /\ ArchiveIdle /\ EsbuildIdle
    /\ m_pc = "input"
    /\ \E doc \in { "w", "g" }, reversed \in BOOLEAN,
          kinds \in [1..Len(PackageDirs) -> PackageKinds] :
          m_files = << File(PackageJsonPath, TextEncode(<< doc >>)) >>
                      \o (IF reversed THEN Reverse(DirectoryFiles(kinds, 1))
                          ELSE DirectoryFiles(kinds, 1))
    /\ m_out = NoMonorepo

\* the handler calls detectMonorepo on the files of the archive
Detect ==
    /\ m_pc = "input"
    /\ m_out' = detectMonorepo(m_files)
    /\ m_pc' = "done"
    /\ UNCHANGED << m_files, zvars, bvars, hvars, vvars, rvars, tvars, ovars, evars >>

NextMonorepo == Detect

SpecMonorepo == InitMonorepo /\ [][NextMonorepo]_vars

HasEntryPoint(p) == p.entryPoint # << >>

\* C23: in the package list every package with an entry point stands before
\* every package without one, and packages of the same kind are in the
\* lexicographic order of their paths, whether or not a path contains "app".
C23_EntryPackagesFirstThenByPath ==
    m_pc = "done" =>
        \A i, j \in 1..Len(m_out.packages) :
            i < j =>
                LET a == m_out.packages[i]
                    b == m_out.packages[j]
                IN  IF HasEntryPoint(a) = HasEntryPoint(b)
                    THEN LocaleCompare(a.path, b.path) < 0
                    ELSE HasEntryPoint(a)

\* the same for lists in which no path without an entry point contains "app"
C23_HoldsWithoutAppInPath ==
    (m_pc = "done"
       /\ \A i \in 1..Len(m_out.packages) :
             HasEntryPoint(m_out.packages[i])
               \/ ~Includes(m_out.packages[i].path, << "a", "p", "p" >>)) =>
        \A i, j \in 1..Len(m_out.packages) :
            i < j =>
                LET a == m_out.packages[i]
                    b == m_out.packages[j]
                IN  IF HasEntryPoint(a) = HasEntryPoint(b)
                    THEN LocaleCompare(a.path, b.path) < 0
                    ELSE HasEntryPoint(a)

C23_Reached ==
    /\ m_pc = "done" /\ Len(m_out.packages) = 3
    /\ ~HasEntryPoint(m_out.packages[3]) /\ HasEntryPoint(m_out.packages[1])

\* the directories of the FileSet that hold a package.json, below the root
ManifestDirs ==
    { RemoveFirst(m_files[i].key, << "/" >> \o PackageJsonPath) :
        i \in { k \in 1..Len(m_files) :
                  /\ EndsWith(m_files[k].key, PackageJsonPath)
                  /\ m_files[k].key # PackageJsonPath } }

Accepted(dir) == \E i \in 1..Len(m_out.packages) : m_out.packages[i].path = dir

PackagesPrefix == << "p", "a", "c", "k", "a", "g", "e", "s", "/" >>

\* dir lies below packages/
Below(dir) == StartsWith(dir, PackagesPrefix) /\ Len(dir) > Len(PackagesPrefix)

\* dir is a direct child of packages/
DirectChild(dir) ==
    Below(dir) /\ \A i \in (Len(PackagesPrefix) + 1)..Len(dir) : dir[i] # "/"

HasPattern(pattern) ==
    m_out.rootPackageJson.workspaces.patterns = << pattern >>

\* C24: a directory with a package.json is accepted as a workspace package
\* for the pattern packages/** when it lies anywhere below packages/, and
\* for the pattern packages/* when it is a direct child of packages/.
C24_StarIsOneSegmentDeepStarAny ==
    m_pc = "done" =>
        \A dir \in ManifestDirs :
            /\ HasPattern(DeepGlob) => (Accepted(dir) <=> Below(dir))
            /\ HasPattern(PackagesGlob) => (Accepted(dir) <=> DirectChild(dir))

\* the part about *: one path segment
C24_StarIsOneSegment ==
    (m_pc = "done" /\ HasPattern(PackagesGlob)) =>
        \A dir \in ManifestDirs : Accepted(dir) <=> DirectChild(dir)

C24_StarReached ==
    /\ m_pc = "done" /\ HasPattern(PackagesGlob)
    /\ \E dir \in ManifestDirs : Accepted(dir)
    /\ \E dir \in ManifestDirs : ~Accepted(dir)

(***************************************************************************)
(* Damaged archives                                                        *)
(***************************************************************************)
\* what parseZip reads from the archive as it was written
IntactFiles == parseZip(WriteZip(z_entries, z_streamed)).files

\* C25: parseZip does not raise on a truncated or otherwise malformed
\* archive: the scan ends and the entries read before the damage are
\* returned.
C25_MalformedArchiveEndsScan ==
    (z_pc = "parsed" /\ ~z_intact) =>
        /\ ~z_result.threw
        /\ \A i \in 1..Len(z_result.files) :
              \E j \in 1..Len(IntactFiles) : z_result.files[i] = IntactFiles[j]

\* a truncated archive whose scan ended without an exception
C25_Reached ==
    /\ z_pc = "parsed" /\ ~z_intact /\ ~z_result.threw
    /\ Len(z_data) > 4 /\ ~SignatureMismatch(z_data, 0)

(***************************************************************************)
(* Variant prefixes                                                        *)
(***************************************************************************)
\* the variants and what their selector is made of
Variants ==
    << [prefix |-> << "s", "m" >>, kind |-> "media", width |-> << "6", "4", "0", "p", "x" >>],
       [prefix |-> << "m", "d" >>, kind |-> "media", width |-> << "7", "6", "8", "p", "x" >>],
       [prefix |-> << "l", "g" >>, kind |-> "media", width |-> << "1", "0", "2", "4", "p", "x" >>],
       [prefix |-> << "x", "l" >>, kind |-> "media", width |-> << "1", "2", "8", "0", "p", "x" >>],
       [prefix |-> << "2", "x", "l" >>, kind |-> "media", width |-> << "1", "5", "3", "6", "p", "x" >>],
       [prefix |-> << "h", "o", "v", "e", "r" >>, kind |-> "pseudo", width |-> << >>],
       [prefix |-> << "f", "o", "c", "u", "s" >>, kind |-> "pseudo", width |-> << >>],
       [prefix |-> << "f", "o", "c", "u", "s", "-", "v", "i", "s", "i", "b", "l", "e" >>, kind |-> "pseudo", width |-> << >>],
       [prefix |-> << "a", "c", "t", "i", "v", "e" >>, kind |-> "pseudo", width |-> << >>],
       [prefix |-> << "d", "i", "s", "a", "b", "l", "e", "d" >>, kind |-> "pseudo", width |-> << >>],
       [prefix |-> << "d", "a", "r", "k" >>, kind |-> "dark", width |-> << >>],
       [prefix |-> << "g", "r", "o", "u", "p", "-", "h", "o", "v", "e", "r" >>, kind |-> "group", width |-> << >>] >>

\* the rule of class v:u under the selector of the variant, with the
\* declarations of the utility u
VariantRule(variant, u) ==
    LET name == variant.prefix \o << "\\", ":" >> \o u
        decl == << " ", "{", " " >> \o RuleBody(utilities[u]) \o << " ", "}" >>
    IN  CASE variant.kind = "media" ->
               << "@", "m", "e", "d", "i", "a", " ", "(", "m", "i", "n", "-", "w", "i", "d", "t", "h", ":", " " >> \o variant.width \o << ")", " ", "{", " ", "." >> \o name \o decl \o << " ", "}" >>
          [] variant.kind = "pseudo" -> << "." >> \o name \o << ":" >> \o variant.prefix \o decl
          [] variant.kind = "dark" -> << ".", "d", "a", "r", "k", " ", "." >> \o name \o decl
          [] variant.kind = "group" -> << ".", "g", "r", "o", "u", "p", ":", "h", "o", "v", "e", "r", " ", "." >> \o name \o decl

\* the used classes v:u of the variant
VariantClasses(variant) ==
    { i \in 1..Len(t_used) : StartsWith(t_used[i], variant.prefix \o << ":" >>) }

UtilityOf(variant, className) ==
    SubSeq(className, Len(variant.prefix) + 2, Len(className))

RulesEqualTo(rule) == { i \in 1..Len(t_out.rules) : t_out.rules[i] = rule }

RulesNaming(variant, u) ==
    { i \in 1..Len(t_out.rules) :
        Includes(t_out.rules[i], variant.prefix \o << "\\", ":" >> \o u) }

\* C26: for a used class v:u of one of the twelve variants, if u is in the
\* utility table there is exactly one rule with u's declarations under the
\* selector of the variant, and the class adds no unprefixed rule for u
\* (there are no more of them than used classes u); if u is not in the
\* table no rule names the class.
C26_VariantRuleUnderItsSelector ==
    t_pc = "done" =>
        \A k \in 1..Len(Variants) :
            \A i \in VariantClasses(Variants[k]) :
                LET u == UtilityOf(Variants[k], t_used[i])
                IN  IF HasUtility(u)
                    THEN /\ Cardinality(RulesEqualTo(VariantRule(Variants[k], u))) = 1
                         /\ Cardinality(RulesEqualTo(utilities[u]))
                              <= Cardinality({ j \in 1..Len(t_used) : t_used[j] = u })
                    ELSE RulesNaming(Variants[k], u) = {}

\* the same when the used classes have the variants sm, md, lg, hover and
\* focus only
C26_HoldsForFiveVariants ==
    (t_pc = "done"
       /\ \A k \in (1..Len(Variants)) \ { 1, 2, 3, 6, 7 } : VariantClasses(Variants[k]) = {}) =>
        \A k \in { 1, 2, 3, 6, 7 } :
            \A i \in VariantClasses(Variants[k]) :
                LET u == UtilityOf(Variants[k], t_used[i])
                IN  IF HasUtility(u)
                    THEN /\ Cardinality(RulesEqualTo(VariantRule(Variants[k], u))) = 1
                         /\ Cardinality(RulesEqualTo(utilities[u]))
                              <= Cardinality({ j \in 1..Len(t_used) : t_used[j] = u })
                    ELSE RulesNaming(Variants[k], u) = {}

C26_FiveVariantsReached ==
    /\ t_pc = "done" /\ Len(t_used) = 2
    /\ \A k \in (1..Len(Variants)) \ { 1, 2, 3, 6, 7 } : VariantClasses(Variants[k]) = {}
    /\ VariantClasses(Variants[2]) # {} /\ VariantClasses(Variants[6]) # {}
    /\ Len(t_out.rules) = 2

(***************************************************************************)
(* The archive stage on its own: a FileSet with src/main.tsx and any of    *)
(* the files below under public/, empty or not, in either order.           *)
(***************************************************************************)
PublicPaths ==
    << << "p", "u", "b", "l", "i", "c", "/", "i", "n", "d", "e", "x", ".", "h", "t", "m", "l" >>,
       << "p", "u", "b", "l", "i", "c", "/", "b", "u", "n", "d", "l", "e", ".", "j", "s" >>,
       << "p", "u", "b", "l", "i", "c", "/", "s", "t", "y", "l", "e", "s", ".", "c", "s", "s" >>,
       << "p", "u", "b", "l", "i", "c", "/", "l", "o", "g", "o", ".", "s", "v", "g" >>,
       << "p", "u", "b", "l", "i", "c", "/", "i", "m", "g", "/", "a", ".", "p", "n", "g" >> >>

AssetContents == { "absent", "empty", "bytes" }

AssetFile(path, content) ==
    IF content = "absent" THEN << >>
    ELSE << File(path, IF content = "empty" THEN << >> ELSE << 7 >>) >>

RECURSIVE AssetFiles(_, _)
AssetFiles(contents, i) ==
    IF i > Len(PublicPaths) THEN << >>
    ELSE AssetFile(PublicPaths[i], contents[i]) \o AssetFiles(contents, i + 1)

\* what bundleFiles returned for src/main.tsx
MainBundle ==
    [externalImports |-> << >>,
     blocks |-> << [path |-> SrcMainTsx, imports |-> << >>, body |-> << "code" >>] >>]

InitArchive ==
    /\ ZipIdle /\ BundlerIdle /\ HandlerIdle /\ VersionIdle /\ ResolveIdle /\ TailwindIdle
    /\ MonorepoIdle /\ EsbuildIdle
    /\ o_pc = "input"
    /\ \E reversed \in BOOLEAN, contents \in [1..Len(PublicPaths) -> AssetContents] :
          o_files = << File(SrcMainTsx, TextEncode(WriteSource(<< >>, << "code" >>))) >>
                      \o (IF reversed THEN Reverse(AssetFiles(contents, 1))
                          ELSE AssetFiles(contents, 1))
    /\ o_out = << >>

\* the handler fills zipFiles
Archive ==
    /\ o_pc = "input"
    /\ o_out' = ZipFiles(o_files, MainBundle, CombinedCss(o_files))
    /\ o_pc' = "done"
    /\ UNCHANGED << o_files, zvars, bvars, hvars, vvars, rvars, tvars, mvars, evars >>

NextArchive == Archive

SpecArchive == InitArchive /\ [][NextArchive]_vars

GeneratedNames == { IndexHtmlName, BundleJsName, StylesCssName }

\* the files of the FileSet under public/
PublicFiles == { i \in 1..Len(o_files) : StartsWith(o_files[i].key, PublicDir) }

Stripped(path) == SubSeq(path, Len(PublicDir) + 1, Len(path))

HoldsGenerated(zipFiles) ==
    /\ MapHas(zipFiles, IndexHtmlName) /\ MapHas(zipFiles, BundleJsName)
    /\ MapHas(zipFiles, StylesCssName)
    /\ MapVal(zipFiles, IndexHtmlName) = strToU8(generateHtml(BundleJsName, StylesCssName))
    /\ MapVal(zipFiles, BundleJsName) = strToU8(MainBundle)
    /\ MapVal(zipFiles, StylesCssName) = strToU8(CombinedCss(o_files))

HoldsAssets(zipFiles) ==
    \A i \in PublicFiles :
        Stripped(o_files[i].key) \notin GeneratedNames =>
            /\ MapHas(zipFiles, Stripped(o_files[i].key))
            /\ MapVal(zipFiles, Stripped(o_files[i].key)) = [bytes |-> o_files[i].val]

\* C27: whatever the FileSet, the entries index.html, bundle.js and
\* styles.css of the output archive hold the generated page, the bundled
\* script and the generated stylesheet, and the files under public/ are
\* added with the prefix stripped without replacing one of the three.
C27_GeneratedEntriesAreKept ==
    o_pc = "done" => (HoldsGenerated(o_out) /\ HoldsAssets(o_out))

\* the same for a FileSet with no public file named like a generated entry
C27_HoldsWithoutNameClash ==
    (o_pc = "done" /\ \A i \in PublicFiles : Stripped(o_files[i].key) \notin GeneratedNames) =>
        (HoldsGenerated(o_out) /\ HoldsAssets(o_out))

C27_AssetsReached ==
    /\ o_pc = "done" /\ Cardinality(PublicFiles) = 2 /\ Len(o_out) = 5

(***************************************************************************)
(* Completion and the stored output                                        *)
(***************************************************************************)
\* the invocation in slot s has set its job to 'completed'
MarkedCompleted(s) ==
    \E i \in 1..Len(h_inv[s].wrote) : h_inv[s].wrote[i].status = "completed"

\* C28: when an invocation sets its job to 'completed' with the path of
\* build.zip, its upload of that object has succeeded and its response is
\* success:true; no job is 'completed' while its build.zip is not stored.
C28_CompletedHasOutputObject ==
    /\ \A s \in Slots :
          MarkedCompleted(s) =>
              /\ "uploadZip" \in h_inv[s].ran /\ "uploadZip" \notin h_inv[s].failed
              /\ Pc(s) = "done" => h_inv[s].resp.success
    /\ \A id \in DOMAIN h_jobs :
          h_jobs[id].status = "completed" =>
              /\ h_jobs[id].output_file_path = "build.zip"
              /\ << id, "build.zip" >> \in DOMAIN h_store

\* what does hold: the response of an invocation that completed its job is
\* success:true, and the preview page of the job is stored
C28_CompletedAnswersSuccess ==
    /\ \A s \in Slots :
          MarkedCompleted(s) =>
              /\ "uploadHtml" \in h_inv[s].ran /\ "uploadHtml" \notin h_inv[s].failed
              /\ Pc(s) = "done" => h_inv[s].resp.success
    /\ \A id \in DOMAIN h_jobs :
          h_jobs[id].status = "completed" =>
              /\ h_jobs[id].output_file_path = "build.zip"
              /\ << id, "index.html" >> \in DOMAIN h_store

(***************************************************************************)
(* Source files with empty content                                         *)
(***************************************************************************)
\* the same SourceTable with one statement of code in each empty file
Filled(sourceFiles) ==
    [k \in DOMAIN sourceFiles |->
        IF sourceFiles[k] = EmptyText THEN Text(<< >>, << "code" >>) ELSE sourceFiles[k]]

HasBlock(path) == \E k \in 1..Len(b_out.blocks) : b_out.blocks[k].path = path

\* C29: presence is decided by key: every import statement of the project
\* resolves as it would if the empty files had content, and the entry point
\* and every file that an emitted block imports locally have a block, empty
\* or not.
C29_EmptyFileIsPresent ==
    b_pc = "done" =>
        /\ b_res = ResolveAll(Filled(b_sources), b_mono, b_pkg, b_deps)
        /\ b_entry \in DOMAIN b_sources => HasBlock(b_entry)
        /\ \A f \in DOMAIN b_sources : \A i \in 1..Len(b_sources[f].imports) :
              LET res == resolveImport(b_sources[f].imports[i], f, Filled(b_sources),
                                       b_mono, b_pkg, b_deps)
              IN  (HasBlock(f) /\ ~res.isExternal /\ res.resolved \in DOMAIN b_sources)
                      => HasBlock(res.resolved)

\* what does hold: the same for a project none of whose files is empty
C29_HoldsWithoutEmptyFile ==
    (b_pc = "done" /\ \A k \in DOMAIN b_sources : b_sources[k] # EmptyText) =>
        /\ b_entry \in DOMAIN b_sources => HasBlock(b_entry)
        /\ \A f \in DOMAIN b_sources : \A i \in 1..Len(b_sources[f].imports) :
              (HasBlock(f) /\ ~b_res[f][i].isExternal
                 /\ b_res[f][i].resolved \in DOMAIN b_sources)
                      => HasBlock(b_res[f][i].resolved)

C29_LocalImportReached ==
    /\ b_pc = "done"
    /\ \A k \in DOMAIN b_sources : b_sources[k] # EmptyText
    /\ \E f \in DOMAIN b_sources : \E i \in 1..Len(b_sources[f].imports) :
          HasBlock(f) /\ ~b_res[f][i].isExternal /\ HasBlock(b_res[f][i].resolved)

(***************************************************************************)
(* The esbuild variant: initEsbuild in a process that serves several       *)
(* requests.  A handler is at "idle" (no request), "initializing" (at the  *)
(* await of esbuild.initialize inside initEsbuild), "building" (initEsbuild*)
(* has returned, the rest of the pipeline runs) or "done" (it has          *)
(* answered).  The process serves MaxRequests requests in all.             *)
(***************************************************************************)
MaxRequests == 4

Methods == { "OPTIONS", "POST" }

\* Deno.serve: the handler from the request to the await inside initEsbuild
Serve(s) ==
    /\ e_inv[s] \in { "idle", "done" }
    /\ e_started < MaxRequests
    /\ e_started' = e_started + 1
    /\ \E method \in Methods :
          IF method = "OPTIONS"
          THEN /\ e_inv' = [e_inv EXCEPT ![s] = "done"]
               /\ UNCHANGED << e_flag, e_calls >>
          ELSE IF ~e_flag
          THEN /\ e_calls' = e_calls + 1
               /\ e_inv' = [e_inv EXCEPT ![s] = "initializing"]
               /\ UNCHANGED e_flag
          ELSE /\ e_inv' = [e_inv EXCEPT ![s] = "building"]
               /\ UNCHANGED << e_flag, e_calls >>
    /\ UNCHANGED << zvars, bvars, hvars, vvars, rvars, tvars, mvars, ovars >>

\* the promise of esbuild.initialize settles: the flag is set when it is
\* fulfilled, the handler's catch answers 500 when it is rejected
InitializeSettles(s) ==
    /\ e_inv[s] = "initializing"
    /\ \E fulfilled \in BOOLEAN :
          IF fulfilled
          THEN /\ e_flag' = TRUE
               /\ e_inv' = [e_inv EXCEPT ![s] = "building"]
          ELSE /\ e_inv' = [e_inv EXCEPT ![s] = "done"]
               /\ UNCHANGED e_flag
    /\ UNCHANGED << e_calls, e_started, zvars, bvars, hvars, vvars, rvars, tvars,
                    mvars, ovars >>

\* the rest of the pipeline, to the response
Respond(s) ==
    /\ e_inv[s] = "building"
    /\ e_inv' = [e_inv EXCEPT ![s] = "done"]
    /\ UNCHANGED << e_flag, e_calls, e_started, zvars, bvars, hvars, vvars, rvars,
                    tvars, mvars, ovars >>

InitEsbuildProcess ==
    /\ ZipIdle /\ BundlerIdle /\ HandlerIdle /\ VersionIdle /\ ResolveIdle /\ TailwindIdle
    /\ MonorepoIdle /\ ArchiveIdle /\ EsbuildIdle

NextEsbuild ==
    \/ \E s \in EsbuildSlots : Serve(s)
    \/ \E s \in EsbuildSlots : InitializeSettles(s)
    \/ \E s \in EsbuildSlots : Respond(s)

SpecEsbuild == InitEsbuildProcess /\ [][NextEsbuild]_vars

\* C30: esbuild.initialize is called at most once in the life of the
\* process, whatever the order and the overlap of the invocations.
C30_InitializeCalledOnce == e_calls <= 1

\* what does hold: once esbuildInitialized is set, initialize is not called
\* again
C30_NoCallAfterFlagSet == [][e_flag => e_calls' = e_calls]_vars

\* two handlers are at the await of initialize together
C30_OverlapReached ==
    \E s, t \in EsbuildSlots : s # t /\ e_inv[s] = "initializing" /\ e_inv[t] = "initializing"

=============================================================================
